---- MODULE Spec2Model ----
(***************************************************************************)
(* A model of the z80e core (source/z80e.c, source/z80e.h): the CPU        *)
(* object, the host memory behind the memread/memwrite callbacks, and      *)
(* z80e_instruction with the four decoder tables and the kernels they      *)
(* call.                                                                   *)
(*                                                                         *)
(* Conventions.  A "machine" m is a record [z, mem, bus]: the struct z80e, *)
(* the host memory and the list of bus accesses issued so far by the       *)
(* current call.  A C function that only has effects is an operator from   *)
(* machine to machine; one that also returns a value yields [m, v]; the    *)
(* decoders yield [m, ret].  A zu8* parameter is modelled by passing the   *)
(* pointee's value in and storing the returned v at the call site.         *)
(* The statements of a function body are chained with Bind, each acting on *)
(* the machine the previous one left.                                      *)
(* zi8 is `char`; it is modelled as the signed 8-bit type it is on the     *)
(* targets the test drivers compare against Z80E_INVALID_OPCODE on.        *)
(***************************************************************************)
EXTENDS Integers, Sequences, FiniteSets, TLC

VARIABLES
  z80,     \* struct z80e (all fields but the callbacks)
  mem,     \* host memory: address -> byte, absent addresses hold 0
  bus,     \* bus accesses issued by the last z80e_instruction call
  retval,  \* value returned by the last z80e_instruction call
  pre,     \* [z, mem] as they were when the last call was entered
  last,    \* which operation ran last
  nsteps,  \* number of operations run so far
  start    \* [z, mem] as the embedder set them up before the first call

vars == <<z80, mem, bus, retval, pre, last, nsteps, start>>

(* ------------------------------ bounds --------------------------------- *)

\* operations per behaviour of the lifecycle specification
MaxSteps == 3
\* calls per behaviour of the ALU specification
AluSteps == 1
\* calls per behaviour of the stack specification
StackSteps == 2
\* calls made on a call / return / relative-jump program
FlowSteps == 2
\* calls made on a block instruction, and the largest BC it starts with
BlockSteps == 3
MaxCount == 3
\* calls made on a program of exchange instructions
ExSteps == 2
\* calls made on a 16-bit addition
WideSteps == 1
\* calls made on a CB-prefixed instruction
CBSteps == 1
\* calls made on an accumulator program that ends in halt
AccSteps == 2

(* --------------------------- integer helpers --------------------------- *)

U8(x) == x % 256
U16(x) == x % 65536

RECURSIVE BitAnd(_, _)
BitAnd(a, b) ==
  IF a = 0 \/ b = 0 THEN 0
  ELSE (a % 2) * (b % 2) + 2 * BitAnd(a \div 2, b \div 2)

RECURSIVE BitOr(_, _)
BitOr(a, b) ==
  IF a = 0 THEN b
  ELSE IF b = 0 THEN a
  ELSE (IF a % 2 = 1 \/ b % 2 = 1 THEN 1 ELSE 0) + 2 * BitOr(a \div 2, b \div 2)

RECURSIVE BitXor(_, _)
BitXor(a, b) ==
  IF a = 0 THEN b
  ELSE IF b = 0 THEN a
  ELSE ((a + b) % 2) + 2 * BitXor(a \div 2, b \div 2)

B2N(p) == IF p THEN 1 ELSE 0

\* a C local: the value e under the name the statements F that follow give it
Bind(e, F(_)) == F(e)

\* #define bit(v, n) (((v) & (1 << n)) != 0)
bit(v, n) == (v \div (2 ^ n)) % 2
low_nibble(v) == v % 16
lsb(v) == v % 256
msb(v) == v \div 256

\* (zi8)b : a byte reinterpreted as signed two's complement
zi8(b) == IF b >= 128 THEN b - 256 ELSE b

(* ------------------------- registers and flags ------------------------- *)

reg(m, n) == m.z[m.z.cur][n]
setreg(m, n, v) == [m EXCEPT !.z[m.z.cur][n] = U8(v)]

sf(m) == BitAnd(reg(m, "f"), 128)
zf(m) == BitAnd(reg(m, "f"), 64)
yf(m) == BitAnd(reg(m, "f"), 32)
hf(m) == BitAnd(reg(m, "f"), 16)
xf(m) == BitAnd(reg(m, "f"), 8)
pof(m) == BitAnd(reg(m, "f"), 4)
nf(m) == BitAnd(reg(m, "f"), 2)
cf(m) == BitAnd(reg(m, "f"), 1)

\* !x in C
Not(x) == IF x = 0 THEN 1 ELSE 0

\* the parameter v is a zu8: the argument is converted before it is tested
set_f(m, v, pos) ==
  Bind(reg(m, "f"), LAMBDA f :
  Bind(f - bit(f, pos) * (2 ^ pos), LAMBDA cleared :
  setreg(m, "f", IF U8(v) # 0 THEN cleared + 2 ^ pos ELSE cleared)))

set_sf(m, v) == set_f(m, v, 7)
set_zf(m, v) == set_f(m, v, 6)
set_yf(m, v) == set_f(m, v, 5)
set_hf(m, v) == set_f(m, v, 4)
set_xf(m, v) == set_f(m, v, 3)
set_pof(m, v) == set_f(m, v, 2)
set_nf(m, v) == set_f(m, v, 1)
\* set_cf that stores into the P/V bit
set_cf_pv(m, v) == set_f(m, v, 2)
set_cf(m, v) == set_f(m, v, 0)

set_iff(m, v, i) ==
  Bind(m.z.iff - bit(m.z.iff, i) * (2 ^ i), LAMBDA cleared :
  [m EXCEPT !.z.iff = IF U8(v) # 0 THEN cleared + 2 ^ i ELSE cleared])
set_iff1(m, v) == set_iff(m, v, 0)
set_iff2(m, v) == set_iff(m, v, 1)
iff2(m) == bit(m.z.iff, 1)

set_yf_u16(m, v) == set_yf(m, bit(v, 13))
set_xf_u16(m, v) == set_xf(m, bit(v, 11))

\* carry with the carry-in left out of the sum
carry_noc(i, a, b, c) ==
  Bind((2 ^ i) - 1, LAMBDA mask :
  Bind(BitAnd(a, mask) + BitAnd(b, mask), LAMBDA res :
  B2N((res \div (2 ^ i)) # 0)))

carry(i, a, b, c) ==
  Bind((2 ^ i) - 1, LAMBDA mask :
  Bind(BitAnd(a, mask) + BitAnd(b, mask) + c, LAMBDA res :
  B2N((res \div (2 ^ i)) # 0)))

borrow(i, a, b, c) ==
  Bind((2 ^ i) - 1, LAMBDA mask :
  B2N(BitAnd(a, mask) < BitAnd(b + c, mask)))

u8_overflow(a, b) == carry(7, U8(a), U8(b), 0)
u8_half_carry(a, b) == carry(4, U8(a), U8(b), 0)
u8_half_borrow(a, b) == borrow(4, U8(a), U8(b), 0)
u8_negative(i) == bit(U8(i), 7)
u16_byte_carry(a, b) == carry(8, a, b, 0)

bc(m) == reg(m, "b") * 256 + reg(m, "c")
hl(m) == reg(m, "h") * 256 + reg(m, "l")
de(m) == reg(m, "d") * 256 + reg(m, "e")
sp(m) == m.z.sp
af(m) == reg(m, "a") * 256 + reg(m, "f")

set_bc(m, val) == setreg(setreg(m, "b", U16(val) \div 256), "c", val)
set_hl(m, val) == setreg(setreg(m, "h", U16(val) \div 256), "l", val)
set_de(m, val) == setreg(setreg(m, "d", U16(val) \div 256), "e", val)
set_sp(m, val) == [m EXCEPT !.z.sp = U16(val)]
set_af(m, val) == setreg(setreg(m, "a", U16(val) \div 256), "f", val)

(* --------------------------- the bus adapter --------------------------- *)

Peek(memory, a) == IF a \in DOMAIN memory THEN memory[a] ELSE 0
Poke(memory, a, v) ==
  [x \in (DOMAIN memory) \cup {a} |-> IF x = a THEN v ELSE memory[x]]

\* z80->memread(addr, ctx) and z80->memwrite(addr, byte, ctx)
memread(m, addr) ==
  [m |-> [m EXCEPT !.bus = Append(@, <<"r", addr>>)], v |-> Peek(m.mem, addr)]
memwrite(m, addr, byte) ==
  [m EXCEPT !.bus = Append(@, <<"w", addr, byte>>),
            !.mem = Poke(@, addr, byte)]

\* read_byte advancing pc by two
read_byte_skip(m) ==
  Bind(memread(m, m.z.pc), LAMBDA r :
  [m |-> [r.m EXCEPT !.z.pc = U16(@ + 2)], v |-> r.v])

read_byte(m) ==
  Bind(memread(m, m.z.pc), LAMBDA r :
  [m |-> [r.m EXCEPT !.z.pc = U16(@ + 1)], v |-> r.v])

read_byte_at(m, addr) == memread(m, U16(addr))

read_word(m) ==
  Bind(read_byte(m), LAMBDA lo :
  Bind(read_byte(lo.m), LAMBDA hi :
  [m |-> hi.m, v |-> hi.v * 256 + lo.v]))

\* read_byte_at(addr) | (read_byte_at(addr + 1) << 8): the order of the two
\* calls is unspecified; lf chooses the left operand first
read_word_at(m, addr, lf) ==
  IF lf
  THEN Bind(read_byte_at(m, addr), LAMBDA lo :
       Bind(read_byte_at(lo.m, addr + 1), LAMBDA hi :
       [m |-> hi.m, v |-> hi.v * 256 + lo.v]))
  ELSE Bind(read_byte_at(m, addr + 1), LAMBDA hi :
       Bind(read_byte_at(hi.m, addr), LAMBDA lo :
       [m |-> lo.m, v |-> hi.v * 256 + lo.v]))

write_byte(m, byte) ==
  Bind(memwrite(m, m.z.pc, U8(byte)), LAMBDA w :
  [w EXCEPT !.z.pc = U16(@ + 1)])

write_byte_at(m, byte, addr) == memwrite(m, U16(addr), U8(byte))

write_word(m, word) == write_byte(write_byte(m, word), U16(word) \div 256)

\* write_word_at that reads the low byte back before it stores the high byte
write_word_at_verify(m, word, addr) ==
  Bind(read_byte_at(write_byte_at(m, word, addr), addr), LAMBDA r :
  write_byte_at(r.m, U16(word) \div 256, addr + 1))

write_word_at(m, word, addr) ==
  write_byte_at(write_byte_at(m, word, addr), U16(word) \div 256, addr + 1)

(* ----------------------------- ALU kernels ----------------------------- *)

is_even_parity(v) ==
  Bind(bit(v, 0) + bit(v, 1) + bit(v, 2) + bit(v, 3) + bit(v, 4)
           + bit(v, 5) + bit(v, 6) + bit(v, 7) + bit(U8(v), 8), LAMBDA n :
  B2N(n % 2 = 0))

dec8(m, r) ==
  Bind(set_hf(m, u8_half_borrow(r, 1)), LAMBDA m1 :
  Bind(set_cf(m1, borrow(8, r, 1, 0)), LAMBDA m2 :
  Bind(set_pof(m2, cf(m2)), LAMBDA m3 :
  Bind(U8(r - 1), LAMBDA r1 :
  Bind(set_sf(m3, u8_negative(r1)), LAMBDA m4 :
  Bind(set_zf(m4, B2N(r1 = 0)), LAMBDA m5 :
  Bind(set_nf(m5, 1), LAMBDA m6 :
  Bind(set_yf(m6, bit(r1, 5)), LAMBDA m7 :
  Bind(set_xf(m7, bit(r1, 3)), LAMBDA m8 :
  [m |-> m8, v |-> r1])))))))))

inc8(m, r) ==
  Bind(set_cf(m, u8_overflow(r, 1)), LAMBDA m1 :
  Bind(set_pof(m1, cf(m1)), LAMBDA m2 :
  Bind(set_hf(m2, u8_half_carry(r, 1)), LAMBDA m3 :
  Bind(U8(r + 1), LAMBDA r1 :
  Bind(set_sf(m3, u8_negative(r1)), LAMBDA m4 :
  Bind(set_zf(m4, B2N(r1 = 0)), LAMBDA m5 :
  Bind(set_yf(m5, bit(r1, 5)), LAMBDA m6 :
  Bind(set_xf(m6, bit(r1, 3)), LAMBDA m7 :
  Bind(set_nf(m7, 0), LAMBDA m8 :
  [m |-> m8, v |-> r1])))))))))

add8(m, v, c) ==
  Bind(set_cf(m, carry(8, reg(m, "a"), v, c)), LAMBDA m1 :
  Bind(set_pof(m1, cf(m1)), LAMBDA m2 :
  Bind(set_hf(m2, carry(4, reg(m2, "a"), v, c)), LAMBDA m3 :
  Bind(setreg(m3, "a", reg(m3, "a") + v + c), LAMBDA m4 :
  Bind(set_sf(m4, u8_negative(reg(m4, "a"))), LAMBDA m5 :
  Bind(set_zf(m5, B2N(reg(m5, "a") = 0)), LAMBDA m6 :
  Bind(set_yf(m6, bit(reg(m6, "a"), 5)), LAMBDA m7 :
  Bind(set_xf(m7, bit(reg(m7, "a"), 3)), LAMBDA m8 :
  set_nf(m8, 0)))))))))

sub8(m, v, c) ==
  Bind(set_cf(m, borrow(8, reg(m, "a"), v, c)), LAMBDA m1 :
  Bind(set_pof(m1, cf(m1)), LAMBDA m2 :
  Bind(set_hf(m2, borrow(4, reg(m2, "a"), v, c)), LAMBDA m3 :
  Bind(setreg(m3, "a", reg(m3, "a") - (v + c)), LAMBDA m4 :
  Bind(set_sf(m4, u8_negative(reg(m4, "a"))), LAMBDA m5 :
  Bind(set_zf(m5, B2N(reg(m5, "a") = 0)), LAMBDA m6 :
  Bind(set_yf(m6, bit(reg(m6, "a"), 5)), LAMBDA m7 :
  Bind(set_xf(m7, bit(reg(m7, "a"), 3)), LAMBDA m8 :
  set_nf(m8, 1)))))))))

\* and8 with the logical && in place of the bitwise &
and8_logical(m, v) ==
  Bind(setreg(m, "a", B2N(reg(m, "a") # 0 /\ v # 0)), LAMBDA m1 :
  Bind(reg(m1, "a"), LAMBDA a :
  Bind(set_sf(m1, u8_negative(a)), LAMBDA m2 :
  Bind(set_zf(m2, B2N(a = 0)), LAMBDA m3 :
  Bind(set_hf(m3, 1), LAMBDA m4 :
  Bind(set_pof(m4, is_even_parity(a)), LAMBDA m5 :
  Bind(set_yf(m5, bit(a, 5)), LAMBDA m6 :
  Bind(set_xf(m6, bit(a, 3)), LAMBDA m7 :
  Bind(set_nf(m7, 0), LAMBDA m8 :
  set_cf(m8, 0))))))))))
and8(m, v) ==
  Bind(setreg(m, "a", BitAnd(reg(m, "a"), v)), LAMBDA m1 :
  Bind(reg(m1, "a"), LAMBDA a :
  Bind(set_sf(m1, u8_negative(a)), LAMBDA m2 :
  Bind(set_zf(m2, B2N(a = 0)), LAMBDA m3 :
  Bind(set_hf(m3, 1), LAMBDA m4 :
  Bind(set_pof(m4, is_even_parity(a)), LAMBDA m5 :
  Bind(set_yf(m5, bit(a, 5)), LAMBDA m6 :
  Bind(set_xf(m6, bit(a, 3)), LAMBDA m7 :
  Bind(set_nf(m7, 0), LAMBDA m8 :
  set_cf(m8, 0))))))))))

or8(m, v) ==
  Bind(setreg(m, "a", BitOr(reg(m, "a"), v)), LAMBDA m1 :
  Bind(reg(m1, "a"), LAMBDA a :
  Bind(set_sf(m1, u8_negative(a)), LAMBDA m2 :
  Bind(set_zf(m2, B2N(a = 0)), LAMBDA m3 :
  Bind(set_yf(m3, bit(a, 5)), LAMBDA m4 :
  Bind(set_hf(m4, 0), LAMBDA m5 :
  Bind(set_xf(m5, bit(a, 3)), LAMBDA m6 :
  Bind(set_pof(m6, is_even_parity(a)), LAMBDA m7 :
  Bind(set_nf(m7, 0), LAMBDA m8 :
  set_cf(m8, 0))))))))))

xor8(m, v) ==
  Bind(setreg(m, "a", BitXor(reg(m, "a"), v)), LAMBDA m1 :
  Bind(reg(m1, "a"), LAMBDA a :
  Bind(set_sf(m1, B2N(BitAnd(a, 128) # 0)), LAMBDA m2 :
  Bind(set_zf(m2, B2N(a = 0)), LAMBDA m3 :
  Bind(set_hf(m3, 0), LAMBDA m4 :
  Bind(set_pof(m4, is_even_parity(a)), LAMBDA m5 :
  Bind(set_yf(m5, bit(a, 5)), LAMBDA m6 :
  Bind(set_xf(m6, bit(a, 3)), LAMBDA m7 :
  Bind(set_nf(m7, 0), LAMBDA m8 :
  set_cf(m8, 0))))))))))

\* z80->state.tmp is a zu16
cp8(m, v) ==
  Bind([m EXCEPT !.z.tmp = U16(reg(m, "a") - v)], LAMBDA m0 :
  Bind(m0.z.tmp, LAMBDA t :
  Bind(set_hf(m0, u8_half_borrow(reg(m0, "a"), v)), LAMBDA m1 :
  Bind(set_cf(m1, borrow(8, reg(m1, "a"), v, 0)), LAMBDA m2 :
  Bind(set_pof(m2, cf(m2)), LAMBDA m3 :
  Bind(set_sf(m3, u8_negative(t)), LAMBDA m4 :
  Bind(set_zf(m4, B2N(reg(m4, "a") = v)), LAMBDA m5 :
  Bind(set_yf(m5, bit(t, 5)), LAMBDA m6 :
  Bind(set_xf(m6, bit(t, 3)), LAMBDA m7 :
  set_nf(m7, 1))))))))))

inc_addr(m, addr) ==
  Bind(read_byte_at(m, addr), LAMBDA r :
  Bind([r.m EXCEPT !.z.tmp = r.v], LAMBDA m0 :
  Bind(set_cf(m0, u8_overflow(m0.z.tmp, 1)), LAMBDA m1 :
  Bind(set_pof(m1, cf(m1)), LAMBDA m2 :
  Bind(set_hf(m2, u8_half_carry(m2.z.tmp, 1)), LAMBDA m3 :
  Bind([m3 EXCEPT !.z.tmp = U16(@ + 1)], LAMBDA m4 :
  Bind(m4.z.tmp, LAMBDA t :
  Bind(set_sf(m4, u8_negative(t)), LAMBDA m5 :
  Bind(set_zf(m5, B2N(t = 0)), LAMBDA m6 :
  Bind(set_yf(m6, bit(t, 5)), LAMBDA m7 :
  Bind(set_xf(m7, bit(t, 3)), LAMBDA m8 :
  set_nf(m8, 0))))))))))))

dec_addr(m, addr) ==
  Bind(read_byte_at(m, addr), LAMBDA r :
  Bind([r.m EXCEPT !.z.tmp = r.v], LAMBDA m0 :
  Bind(set_hf(m0, u8_half_borrow(m0.z.tmp, 1)), LAMBDA m1 :
  Bind([m1 EXCEPT !.z.tmp = U16(@ - 1)], LAMBDA m2 :
  Bind(m2.z.tmp, LAMBDA t :
  Bind(set_pof(m2, B2N(t = 127)), LAMBDA m3 :
  Bind(set_sf(m3, u8_negative(t)), LAMBDA m4 :
  Bind(set_zf(m4, B2N(t = 0)), LAMBDA m5 :
  Bind(set_nf(m5, 1), LAMBDA m6 :
  Bind(set_yf(m6, bit(t, 5)), LAMBDA m7 :
  set_xf(m7, bit(t, 3))))))))))))

add16(m, a, b) ==
  Bind(U16(a + b), LAMBDA res :
  Bind(set_yf(m, bit(res, 13)), LAMBDA m1 :
  Bind(set_hf(m1, u16_byte_carry(a, b)), LAMBDA m2 :
  Bind(set_xf(m2, bit(res, 11)), LAMBDA m3 :
  Bind(set_nf(m3, 0), LAMBDA m4 :
  Bind(set_cf(m4, carry(15, a, b, 0)), LAMBDA m5 :
  [m |-> m5, v |-> res]))))))

inc16(m, v) ==
  Bind(U16(v + 1), LAMBDA v1 :
  [m |-> set_xf_u16(set_yf_u16(m, v1), v1), v |-> v1])

dec16(m, v) ==
  Bind(U16(v - 1), LAMBDA v1 :
  [m |-> set_xf_u16(set_yf_u16(m, v1), v1), v |-> v1])

(* ------------------------- stack and control flow ---------------------- *)

jp(m, cond) ==
  Bind(read_word(m), LAMBDA r :
  IF U8(cond) # 0 THEN [r.m EXCEPT !.z.pc = r.v] ELSE r.m)

\* push that stores the low byte first
push_lowfirst(m, rr) ==
  Bind(write_byte_at(m, lsb(rr), U16(m.z.sp - 2)), LAMBDA m1 :
  Bind(write_byte_at(m1, msb(rr), U16(m.z.sp - 1)), LAMBDA m2 :
  [m2 EXCEPT !.z.sp = U16(@ - 2)]))

push(m, rr) ==
  Bind([m EXCEPT !.z.sp = U16(@ - 1)], LAMBDA m1 :
  Bind(write_byte_at(m1, msb(rr), m1.z.sp), LAMBDA m2 :
  Bind([m2 EXCEPT !.z.sp = U16(@ - 1)], LAMBDA m3 :
  write_byte_at(m3, lsb(rr), m3.z.sp))))

\* pop that reads the high byte before it advances sp
pop_samebyte(m) ==
  Bind(read_byte_at(m, m.z.sp), LAMBDA lo :
  Bind([lo.m EXCEPT !.z.tmp = lo.v], LAMBDA m1 :
  Bind(read_byte_at(m1, m1.z.sp), LAMBDA hi :
  Bind([hi.m EXCEPT !.z.tmp = BitOr(@, U16(hi.v * 256))], LAMBDA m3 :
  Bind([m3 EXCEPT !.z.sp = U16(@ + 2)], LAMBDA m4 :
  [m |-> m4, v |-> m4.z.tmp])))))

pop(m) ==
  Bind(read_byte_at(m, m.z.sp), LAMBDA lo :
  Bind([lo.m EXCEPT !.z.tmp = lo.v], LAMBDA m1 :
  Bind([m1 EXCEPT !.z.sp = U16(@ + 1)], LAMBDA m2 :
  Bind(read_byte_at(m2, m2.z.sp), LAMBDA hi :
  Bind([hi.m EXCEPT !.z.tmp = BitOr(@, U16(hi.v * 256))], LAMBDA m3 :
  Bind([m3 EXCEPT !.z.sp = U16(@ + 1)], LAMBDA m4 :
  [m |-> m4, v |-> m4.z.tmp]))))))

\* jr that adds the displacement to the pc it read before the operand fetch
jr_pcfirst(m, cond) ==
  IF U8(cond) # 0
  THEN Bind(read_byte(m), LAMBDA r :
       [m |-> [r.m EXCEPT !.z.pc = U16(m.z.pc + zi8(r.v))], v |-> 12])
  ELSE [m |-> [m EXCEPT !.z.pc = U16(@ + 1)], v |-> 7]

\* z80->reg.pc += (zi8)read_byte(z80): the compound assignment is a single
\* evaluation with respect to the call in its right operand (C11 6.5.16.2),
\* so the call runs first and pc is read as the call left it
jr(m, cond) ==
  IF U8(cond) # 0
  THEN Bind(read_byte(m), LAMBDA r :
       [m |-> [r.m EXCEPT !.z.pc = U16(r.m.z.pc + zi8(r.v))], v |-> 12])
  ELSE [m |-> [m EXCEPT !.z.pc = U16(@ + 1)], v |-> 7]

\* call that pushes the address of its own operand
call_pushes_operand(m, cc, nn) ==
  IF U8(cc) # 0
  THEN [m |-> [push(m, U16(m.z.pc - 2)) EXCEPT !.z.pc = nn], v |-> 17]
  ELSE [m |-> m, v |-> 10]

call(m, cc, nn) ==
  IF U8(cc) # 0
  THEN [m |-> [push(m, m.z.pc) EXCEPT !.z.pc = nn], v |-> 17]
  ELSE [m |-> m, v |-> 10]

ret(m, cc) ==
  IF U8(cc) # 0
  THEN Bind(pop(m), LAMBDA p :
       [m |-> [p.m EXCEPT !.z.pc = p.v], v |-> 11])
  ELSE [m |-> m, v |-> 10]

(* ------------------------------ block ops ------------------------------ *)

\* ldi (dir = 1) and ldd (dir = -1) differ only in the direction
ld_block(m, dir) ==
  Bind(read_byte_at(m, hl(m)), LAMBDA r :
  Bind(r.v, LAMBDA byte :
  Bind(write_byte_at(r.m, byte, de(r.m)), LAMBDA m1 :
  Bind(set_de(m1, de(m1) + dir), LAMBDA m2 :
  Bind(set_hl(m2, hl(m2) + dir), LAMBDA m3 :
  Bind(set_bc(m3, bc(m3) - 1), LAMBDA m4 :
  Bind(set_yf(m4, bit(reg(m4, "a") + byte, 1)), LAMBDA m5 :
  Bind(set_hf(m5, 0), LAMBDA m6 :
  Bind(set_xf(m6, bit(reg(m6, "a") + byte, 3)), LAMBDA m7 :
  Bind(set_pof(m7, B2N(bc(m7) # 0)), LAMBDA m8 :
  [m |-> set_nf(m8, 0), v |-> 16]))))))))))

\* ldi that leaves DE where it was
ldi_fixed_de(m) == Bind(ld_block(m, 1), LAMBDA r : [r EXCEPT !.m = set_de(r.m, de(m))])
ldi(m) == ld_block(m, 1)
ldd(m) == ld_block(m, -1)

ldir(m) ==
  Bind(ldi(m), LAMBDA r :
  IF bc(r.m) # 0 THEN [m |-> [r.m EXCEPT !.z.pc = U16(@ - 2)], v |-> 21]
     ELSE [m |-> r.m, v |-> 16])

\* lddr that reports a repeat without moving PC back
lddr_norewind(m) ==
  Bind(ldd(m), LAMBDA r :
  IF bc(r.m) # 0 THEN [m |-> r.m, v |-> 21] ELSE [m |-> r.m, v |-> 16])
lddr(m) ==
  Bind(ldd(m), LAMBDA r :
  IF bc(r.m) # 0 THEN [m |-> [r.m EXCEPT !.z.pc = U16(@ - 2)], v |-> 21]
     ELSE [m |-> r.m, v |-> 16])

\* cpi (dir = 1) and cpd (dir = -1) differ only in the direction
cp_block(m, dir) ==
  Bind(read_byte_at(m, hl(m)), LAMBDA r :
  Bind(set_hf(r.m, borrow(4, reg(r.m, "a"), r.v, 0)), LAMBDA m1 :
  Bind(U8(reg(m1, "a") - r.v), LAMBDA byte :
  Bind([m1 EXCEPT !.z.tmp = byte], LAMBDA m2 :
  Bind(set_sf(m2, u8_negative(byte)), LAMBDA m3 :
  Bind(set_zf(m3, B2N(byte = 0)), LAMBDA m4 :
  Bind(U8(byte - hf(m4)), LAMBDA byte2 :
  Bind(set_yf(m4, bit(byte2, 1)), LAMBDA m5 :
  Bind(set_xf(m5, bit(byte2, 3)), LAMBDA m6 :
  Bind(set_hl(m6, hl(m6) + dir), LAMBDA m7 :
  Bind(set_bc(m7, bc(m7) - 1), LAMBDA m8 :
  Bind(set_pof(m8, B2N(bc(m8) # 0)), LAMBDA m9 :
  [m |-> set_nf(m9, 1), v |-> 16]))))))))))))

cpi(m) == cp_block(m, 1)
cpd(m) == cp_block(m, -1)

\* cpir that repeats until BC is exhausted, match or not
cpir_nomatch(m) ==
  Bind(cpi(m), LAMBDA r :
  IF bc(r.m) = 0 THEN [m |-> r.m, v |-> 16]
     ELSE [m |-> [r.m EXCEPT !.z.pc = U16(@ - 2)], v |-> 21])
cpir(m) ==
  Bind(cpi(m), LAMBDA r :
  IF bc(r.m) = 0 \/ r.m.z.tmp = 0 THEN [m |-> r.m, v |-> 16]
     ELSE [m |-> [r.m EXCEPT !.z.pc = U16(@ - 2)], v |-> 21])

cpdr(m) ==
  Bind(cpd(m), LAMBDA r :
  IF bc(r.m) = 0 \/ r.m.z.tmp = 0 THEN [m |-> r.m, v |-> 16]
     ELSE [m |-> [r.m EXCEPT !.z.pc = U16(@ - 2)], v |-> 21])

(* ------------------------ accumulator and flag ops --------------------- *)

\* daa that corrects the high digit only when the carry flag is set
daa_carryonly(m) ==
  Bind(low_nibble(reg(m, "a")), LAMBDA low :
  Bind(IF low > 9 \/ hf(m) # 0 THEN 6 ELSE 0, LAMBDA corr1 :
  Bind(cf(m) # 0, LAMBDA hi :
  Bind(IF hi THEN corr1 + 96 ELSE corr1, LAMBDA corr :
  Bind(IF hi THEN set_cf(m, 1) ELSE m, LAMBDA m1 :
  Bind(IF nf(m1) # 0
            THEN set_hf(setreg(m1, "a", reg(m1, "a") - corr),
                        B2N(hf(m1) # 0 /\ low < 6))
            ELSE set_hf(setreg(m1, "a", reg(m1, "a") + corr), B2N(low > 9)), LAMBDA m2 :
  Bind(reg(m2, "a"), LAMBDA a :
  Bind(set_sf(m2, bit(a, 7)), LAMBDA m3 :
  Bind(set_zf(m3, B2N(a = 0)), LAMBDA m4 :
  Bind(set_yf(m4, bit(a, 5)), LAMBDA m5 :
  Bind(set_xf(m5, bit(a, 3)), LAMBDA m6 :
  set_pof(m6, is_even_parity(a)))))))))))))
daa(m) ==
  Bind(low_nibble(reg(m, "a")), LAMBDA low :
  Bind(IF low > 9 \/ hf(m) # 0 THEN 6 ELSE 0, LAMBDA corr1 :
  Bind(reg(m, "a") > 153 \/ cf(m) # 0, LAMBDA hi :
  Bind(IF hi THEN corr1 + 96 ELSE corr1, LAMBDA corr :
  Bind(IF hi THEN set_cf(m, 1) ELSE m, LAMBDA m1 :
  Bind(IF nf(m1) # 0
            THEN set_hf(setreg(m1, "a", reg(m1, "a") - corr),
                        B2N(hf(m1) # 0 /\ low < 6))
            ELSE set_hf(setreg(m1, "a", reg(m1, "a") + corr), B2N(low > 9)), LAMBDA m2 :
  Bind(reg(m2, "a"), LAMBDA a :
  Bind(set_sf(m2, bit(a, 7)), LAMBDA m3 :
  Bind(set_zf(m3, B2N(a = 0)), LAMBDA m4 :
  Bind(set_yf(m4, bit(a, 5)), LAMBDA m5 :
  Bind(set_xf(m5, bit(a, 3)), LAMBDA m6 :
  set_pof(m6, is_even_parity(a)))))))))))))

cpl(m) ==
  Bind(setreg(m, "a", 255 - reg(m, "a")), LAMBDA m1 :
  Bind(set_yf(m1, bit(reg(m1, "a"), 5)), LAMBDA m2 :
  Bind(set_hf(m2, 1), LAMBDA m3 :
  Bind(set_xf(m3, bit(reg(m3, "a"), 3)), LAMBDA m4 :
  set_nf(m4, 1)))))

neg(m) ==
  Bind(set_hf(m, borrow(4, 0, reg(m, "a"), 0)), LAMBDA m1 :
  Bind(set_pof(m1, B2N(reg(m1, "a") = 128)), LAMBDA m2 :
  Bind(set_cf(m2, B2N(reg(m2, "a") # 0)), LAMBDA m3 :
  Bind(setreg(m3, "a", 0 - reg(m3, "a")), LAMBDA m4 :
  Bind(reg(m4, "a"), LAMBDA a :
  Bind(set_sf(m4, u8_negative(a)), LAMBDA m5 :
  Bind(set_zf(m5, B2N(a = 0)), LAMBDA m6 :
  Bind(set_yf(m6, bit(a, 5)), LAMBDA m7 :
  Bind(set_xf(m7, bit(a, 3)), LAMBDA m8 :
  set_nf(m8, 1))))))))))

ccf(m) ==
  Bind(set_hf(m, cf(m)), LAMBDA m1 :
  set_cf(m1, Not(cf(m1))))

scf(m) == set_cf(set_nf(set_hf(m, 0), 0), 1)

(* ------------------------- rotates and shifts -------------------------- *)

rs_set_registers(m, n) ==
  Bind(set_sf(m, bit(n, 7)), LAMBDA m1 :
  Bind(set_zf(m1, B2N(n = 0)), LAMBDA m2 :
  Bind(set_yf(m2, bit(n, 5)), LAMBDA m3 :
  Bind(set_hf(m3, 0), LAMBDA m4 :
  Bind(set_xf(m4, bit(n, 3)), LAMBDA m5 :
  Bind(set_pof(m5, is_even_parity(n)), LAMBDA m6 :
  set_nf(m6, 0)))))))

rlc(m, r) ==
  Bind(set_cf(m, bit(r, 7)), LAMBDA m1 :
  Bind(U8(BitOr(r * 2, cf(m1))), LAMBDA r1 :
  [m |-> rs_set_registers(m1, r1), v |-> r1]))

\* rl that sets the carry before it shifts the carry in
rl_newcarry(m, r) ==
  Bind(set_cf(m, bit(r, 7)), LAMBDA m1 :
  Bind(U8(BitOr(r * 2, cf(m1))), LAMBDA r1 :
  [m |-> rs_set_registers(m1, r1), v |-> r1]))
rl(m, r) ==
  Bind([m EXCEPT !.z.tmp = bit(r, 7)], LAMBDA m1 :
  Bind(U8(BitOr(r * 2, cf(m1))), LAMBDA r1 :
  Bind(set_cf(m1, m1.z.tmp), LAMBDA m2 :
  [m |-> rs_set_registers(m2, r1), v |-> r1])))

rrc(m, r) ==
  Bind(bit(r, 0), LAMBDA tmp :
  Bind(U8(BitOr(r \div 2, tmp * 128)), LAMBDA r1 :
  Bind(set_cf(m, tmp), LAMBDA m1 :
  [m |-> rs_set_registers(m1, r1), v |-> r1])))

rr(m, r) ==
  Bind(bit(r, 0), LAMBDA tmp :
  Bind(U8(BitOr(r \div 2, cf(m) * 128)), LAMBDA r1 :
  Bind(set_cf(m, tmp), LAMBDA m1 :
  [m |-> rs_set_registers(m1, r1), v |-> r1])))

sla(m, r) ==
  Bind(set_cf(m, bit(r, 7)), LAMBDA m1 :
  Bind(U8(r * 2), LAMBDA r1 :
  [m |-> rs_set_registers(m1, r1), v |-> r1]))

sra(m, r) ==
  Bind(BitAnd(r, 128), LAMBDA tmp :
  Bind(set_cf(m, bit(r, 0)), LAMBDA m1 :
  Bind(U8(BitOr(r \div 2, tmp)), LAMBDA r1 :
  [m |-> rs_set_registers(m1, r1), v |-> r1])))

srl(m, r) ==
  Bind(set_cf(m, bit(r, 0)), LAMBDA m1 :
  Bind(U8(r \div 2), LAMBDA r1 :
  [m |-> rs_set_registers(m1, r1), v |-> r1]))

(* ---------------------------- bit, set, res ---------------------------- *)

bit_op(m, opcode, r) ==
  Bind((opcode \div 8) % 8, LAMBDA bit_idx :
  Bind(BitAnd(r, 2 ^ bit_idx), LAMBDA res :
  Bind(set_sf(m, bit(res, 7)), LAMBDA m1 :
  Bind(set_zf(m1, B2N(res = 0)), LAMBDA m2 :
  Bind(set_yf(m2, bit(res, 5)), LAMBDA m3 :
  Bind(set_hf(m3, 1), LAMBDA m4 :
  Bind(set_xf(m4, bit(res, 3)), LAMBDA m5 :
  Bind(set_pof(m5, zf(m5)), LAMBDA m6 :
  set_nf(m6, 0)))))))))

\* z80->reg.u: the header declares no such field; it is modelled as a
\* register that z80e_init clears and nothing writes
undoc_bit_hl(m, opcode) ==
  Bind(read_byte_at(m, hl(m)), LAMBDA r :
  Bind(bit_op(r.m, opcode, r.v), LAMBDA m1 :
  Bind(set_yf(m1, bit(m1.z.u, 5)), LAMBDA m2 :
  set_xf(m2, bit(m2.z.u, 3)))))

set_op(m, opcode, r) ==
  Bind((opcode \div 8) % 8, LAMBDA bit_idx :
  [m |-> m, v |-> BitOr(r, 2 ^ bit_idx)])

res_op(m, opcode, r) ==
  Bind((opcode \div 8) % 8, LAMBDA bit_idx :
  [m |-> m, v |-> r - bit(r, bit_idx) * (2 ^ bit_idx)])

(* ----------------------------- the decoders ---------------------------- *)

Z80E_OK == 0
Z80E_INVALID_OPCODE == -2

R(m, t) == [m |-> m, ret |-> t]

\* the register an opcode names in its three-bit field (6 names (hl))
RegName(i) ==
  CASE i = 0 -> "b" [] i = 1 -> "c" [] i = 2 -> "d" [] i = 3 -> "e"
    [] i = 4 -> "h" [] i = 5 -> "l" [] i = 7 -> "a"

\* the condition argument of jp/call/ret cc: nz z nc c po pe p m
Cond(m, k) ==
  CASE k = 0 -> Not(zf(m)) [] k = 1 -> zf(m)
    [] k = 2 -> Not(cf(m)) [] k = 3 -> cf(m)
    [] k = 4 -> Not(pof(m)) [] k = 5 -> pof(m)
    [] k = 6 -> Not(sf(m)) [] k = 7 -> sf(m)

\* the rows add adc sub sbc and xor or cp of the 8-bit ALU block
alu8(m, kind, v) ==
  CASE kind = 0 -> add8(m, v, 0)
    [] kind = 1 -> add8(m, v, cf(m))
    [] kind = 2 -> sub8(m, v, 0)
    [] kind = 3 -> sub8(m, v, cf(m))
    [] kind = 4 -> and8(m, v)
    [] kind = 5 -> xor8(m, v)
    [] kind = 6 -> or8(m, v)
    [] kind = 7 -> cp8(m, v)

\* the register pair an opcode names in bits 5..4: bc de hl sp / af
pair(m, k) ==
  CASE k = 0 -> bc(m) [] k = 1 -> de(m) [] k = 2 -> hl(m) [] k = 3 -> m.z.sp
set_pair(m, k, v) ==
  CASE k = 0 -> set_bc(m, v) [] k = 1 -> set_de(m, v)
    [] k = 2 -> set_hl(m, v) [] k = 3 -> [m EXCEPT !.z.sp = U16(v)]

z80e_execute_cb(m, opcode) ==
  Bind(opcode % 8, LAMBDA src :
  Bind(opcode \div 8, LAMBDA kind :
  LET rot(mm, v) == CASE kind = 0 -> rlc(mm, v) [] kind = 1 -> rrc(mm, v)
          [] kind = 2 -> rl(mm, v)  [] kind = 3 -> rr(mm, v)
          [] kind = 4 -> sla(mm, v) [] kind = 5 -> sra(mm, v)
          [] kind = 7 -> srl(mm, v) IN
  CASE opcode \in (\h00 .. \h2F) \cup (\h38 .. \h3F) ->
            IF src = 6
            THEN Bind(read_byte_at(m, hl(m)), LAMBDA r :
                 Bind(rot(r.m, r.v), LAMBDA o :
                 R(write_byte_at(o.m, o.v, hl(o.m)), 15)))
            ELSE Bind(rot(m, reg(m, RegName(src))), LAMBDA o :
                 R(setreg(o.m, RegName(src), o.v), 8))
       [] opcode \in \h40 .. \h7F ->
            IF src = 6 THEN R(undoc_bit_hl(m, opcode), 3)
            ELSE R(bit_op(m, opcode, reg(m, RegName(src))), 2)
       [] opcode \in \hC0 .. \hFF ->
            IF src = 6
            THEN Bind(read_byte_at(m, hl(m)), LAMBDA r :
                 Bind(set_op(r.m, opcode, r.v), LAMBDA o :
                 R(write_byte_at(o.m, o.v, hl(o.m)), 4)))
            ELSE Bind(set_op(m, opcode, reg(m, RegName(src))), LAMBDA o :
                 R(setreg(o.m, RegName(src), o.v), 2))
       [] opcode \in \h80 .. \hBF ->
            IF src = 6
            THEN Bind(read_byte_at(m, hl(m)), LAMBDA r :
                 Bind(res_op(r.m, opcode, r.v), LAMBDA o :
                 R(write_byte_at(o.m, o.v, hl(o.m)), 4)))
            ELSE Bind(res_op(m, opcode, reg(m, RegName(src))), LAMBDA o :
                 R(setreg(o.m, RegName(src), o.v), 2))
       [] OTHER -> R(m, Z80E_INVALID_OPCODE)))

z80e_execute_ed(m, opcode, lf) ==
  Bind((opcode \div 16) % 4, LAMBDA k :
  LET ld_a_ir(v) == Bind(setreg(m, "a", v), LAMBDA m1 :
        Bind(set_sf(m1, u8_negative(v)), LAMBDA m2 :
        Bind(set_zf(m2, B2N(v = 0)), LAMBDA m3 :
        Bind(set_hf(m3, 0), LAMBDA m4 :
        Bind(set_pof(m4, iff2(m4)), LAMBDA m5 :
        set_nf(m5, 0)))))) IN
  CASE opcode = \h47 -> R([m EXCEPT !.z.i = reg(m, "a")], 9)
       [] opcode = \h4F -> R([m EXCEPT !.z.r = reg(m, "a")], 9)
       [] opcode \in {\h4B, \h5B, \h6B, \h7B} ->
            Bind(read_word(m), LAMBDA a :
            Bind(read_word_at(a.m, a.v, lf), LAMBDA w :
            R(set_pair(w.m, k, w.v), 20)))
       [] opcode \in {\h43, \h53, \h63, \h73} ->
            Bind(read_word(m), LAMBDA a :
            R(write_word_at(a.m, pair(m, k), a.v), 20))
       [] opcode = \hA0 -> Bind(ldi(m), LAMBDA r :
                           R(r.m, r.v))
       [] opcode = \hB0 -> Bind(ldir(m), LAMBDA r :
                           R(r.m, r.v))
       [] opcode = \hA8 -> Bind(ldd(m), LAMBDA r :
                           R(r.m, r.v))
       [] opcode = \hB8 -> Bind(lddr(m), LAMBDA r :
                           R(r.m, r.v))
       [] opcode = \hA1 -> Bind(cpi(m), LAMBDA r :
                           R(r.m, r.v))
       [] opcode = \hB1 -> Bind(cpir(m), LAMBDA r :
                           R(r.m, r.v))
       [] opcode = \hA9 -> Bind(cpd(m), LAMBDA r :
                           R(r.m, r.v))
       [] opcode = \hB9 -> Bind(cpdr(m), LAMBDA r :
                           R(r.m, r.v))
       [] opcode = \h44 -> R(neg(m), 8)
       [] opcode = \h46 -> R([m EXCEPT !.z.int_mode = 0], 8)
       [] opcode = \h56 -> R([m EXCEPT !.z.int_mode = 1], 8)
       [] opcode = \h5E -> R([m EXCEPT !.z.int_mode = 2], 8)
       [] opcode = \h57 -> R(ld_a_ir(m.z.i), 9)
       [] opcode = \h5F -> R(ld_a_ir(m.z.r), 9)
       [] OTHER -> R(m, Z80E_INVALID_OPCODE))

\* iz names the index register (the parameter rr of the source) the prefix selected: "ix" or "iy"
z80e_execute_ddfd(m, iz, opcode, lf) ==
  Bind((opcode \div 8) % 8, LAMBDA dst :
  Bind(opcode % 8, LAMBDA src :
  \* *rr + (zi8)read_byte(z80)
  Bind(Bind(read_byte(m), LAMBDA d :
            [m |-> d.m, v |-> U16(d.m.z[iz] + zi8(d.v))]), LAMBDA ea :
  CASE opcode \in {\h7E, \h46, \h4E, \h56, \h5E, \h66, \h6E} ->
            Bind(read_byte_at(ea.m, ea.v), LAMBDA r :
            R(setreg(r.m, RegName(dst), r.v), 19))
       [] opcode \in {\h70, \h71, \h72, \h73, \h74, \h75, \h77} ->
            R(write_byte_at(ea.m, reg(m, RegName(src)), ea.v), 19)
       [] opcode = \h22 ->
            Bind(read_word(m), LAMBDA a :
            R(write_word_at(a.m, m.z[iz], a.v), 20))
       [] opcode = \hF9 -> R([m EXCEPT !.z.sp = m.z[iz]], 10)
       [] opcode = \h21 ->
            Bind(read_word(m), LAMBDA a :
            R([a.m EXCEPT !.z[iz] = a.v], 14))
       [] opcode = \h2A ->
            Bind(read_word(m), LAMBDA a :
            Bind(read_word_at(a.m, a.v, lf), LAMBDA w :
            R([w.m EXCEPT !.z[iz] = w.v], 20)))
       [] opcode = \hE5 -> R(push(m, m.z[iz]), 15)
       [] opcode = \hE1 -> Bind(pop(m), LAMBDA p :
                           R([p.m EXCEPT !.z[iz] = p.v], 14))
       [] opcode \in {\h86, \h8E, \h96, \h9E, \hA6, \hB6, \hAE, \hBE} ->
            Bind(read_byte_at(ea.m, ea.v), LAMBDA r :
            R(alu8(r.m, dst, r.v), 19))
       [] opcode = \h32 -> R(inc_addr(ea.m, ea.v), 23)
       [] opcode = \h35 -> R(dec_addr(ea.m, ea.v), 23)
       [] opcode = \h36 ->
            Bind(read_byte(m), LAMBDA d :
            Bind([d.m EXCEPT !.z.tmp = d.v], LAMBDA m1 :
            Bind(read_byte(m1), LAMBDA n :
            R(write_byte_at(n.m, n.v, n.m.z[iz] + zi8(U8(n.m.z.tmp))), 19))))
       [] opcode = \hE3 ->
            Bind(read_word_at(m, m.z.sp, lf), LAMBDA w :
            Bind([w.m EXCEPT !.z.tmp = w.v], LAMBDA m1 :
            Bind(write_word_at(m1, m1.z[iz], m1.z.sp), LAMBDA m2 :
            R([m2 EXCEPT !.z[iz] = m2.z.tmp], 23))))
       [] OTHER -> R(m, Z80E_INVALID_OPCODE))))

z80e_execute(m, opcode, lf) ==
  Bind((opcode \div 8) % 8, LAMBDA dst :
  Bind(opcode % 8, LAMBDA src :
  Bind((opcode \div 16) % 4, LAMBDA k :
  LET v2m(r) == R(r.m, r.v) IN
  CASE \* ld r, r'
          opcode \in \h40 .. \h7F /\ dst # 6 /\ src # 6 ->
            R(setreg(m, RegName(dst), reg(m, RegName(src))), 4)
       \* ld r, n
       [] opcode \in {\h3E, \h06, \h0E, \h16, \h1E, \h26, \h2E} ->
            Bind(read_byte(m), LAMBDA n :
            R(setreg(n.m, RegName(dst), n.v), 7))
       \* ld r, (hl)
       [] opcode \in {\h7E, \h46, \h4E, \h56, \h5E, \h66, \h6E} ->
            Bind(read_byte_at(m, hl(m)), LAMBDA r :
            R(setreg(r.m, RegName(dst), r.v),
                 IF opcode \in {\h5E, \h6E} THEN 6 ELSE 7))
       \* ld (hl), r
       [] opcode \in {\h70, \h71, \h72, \h73, \h74, \h75, \h77} ->
            R(write_byte_at(m, reg(m, RegName(src)), hl(m)), 7)
       [] opcode = \h36 ->
            Bind(read_byte(m), LAMBDA n :
            R(write_byte_at(n.m, n.v, hl(n.m)), 10))
       [] opcode = \h0A ->
            Bind(read_byte_at(m, bc(m)), LAMBDA r :
            R(setreg(r.m, "a", r.v), 7))
       [] opcode = \h1A ->
            Bind(read_byte_at(m, de(m)), LAMBDA r :
            R(setreg(r.m, "a", r.v), 7))
       [] opcode = \h3A ->
            Bind(read_word(m), LAMBDA a :
            Bind(read_byte_at(a.m, a.v), LAMBDA r :
            R(setreg(r.m, "a", r.v), 13)))
       [] opcode = \h02 -> R(write_byte_at(m, reg(m, "a"), bc(m)), 7)
       [] opcode = \h12 -> R(write_byte_at(m, reg(m, "a"), de(m)), 7)
       [] opcode = \h32 ->
            Bind(read_word(m), LAMBDA a :
            R(write_byte_at(a.m, reg(m, "a"), a.v), 13))
       \* ld rr, nn
       [] opcode \in {\h01, \h11, \h21, \h31} ->
            Bind(read_word(m), LAMBDA a :
            R(set_pair(a.m, k, a.v), 10))
       [] opcode = \h2A ->
            Bind(read_word(m), LAMBDA a :
            Bind(read_word_at(a.m, a.v, lf), LAMBDA w :
            R(set_hl(w.m, w.v), 16)))
       [] opcode = \h22 -> R(write_word(m, hl(m)), 16)
       [] opcode = \hF9 -> R(set_sp(m, hl(m)), 6)
       \* push rr / pop rr
       [] opcode = \hC5 -> R(push(m, bc(m)), 11)
       [] opcode = \hD5 -> R(push(m, de(m)), 11)
       [] opcode = \hE5 -> R(push(m, hl(m)), 11)
       [] opcode = \hF5 -> R(push(m, af(m)), 11)
       [] opcode = \hC1 -> Bind(pop(m), LAMBDA p :
                           R(set_bc(p.m, p.v), 10))
       [] opcode = \hD1 -> Bind(pop(m), LAMBDA p :
                           R(set_de(p.m, p.v), 10))
       [] opcode = \hE1 -> Bind(pop(m), LAMBDA p :
                           R(set_hl(p.m, p.v), 10))
       [] opcode = \hF1 -> Bind(pop(m), LAMBDA p :
                           R(set_af(p.m, p.v), 10))
       \* inc r / dec r
       [] opcode \in {\h04, \h0C, \h14, \h1C, \h24, \h2C, \h3C} ->
            Bind(inc8(m, reg(m, RegName(dst))), LAMBDA o :
            R(setreg(o.m, RegName(dst), o.v), 4))
       [] opcode \in {\h05, \h0D, \h15, \h1D, \h25, \h2D, \h3D} ->
            Bind(dec8(m, reg(m, RegName(dst))), LAMBDA o :
            R(setreg(o.m, RegName(dst), o.v), 4))
       \* add adc sub sbc and xor or cp with a register, n or (hl)
       [] opcode \in \h80 .. \hBF /\ src # 6 ->
            R(alu8(m, dst, reg(m, RegName(src))), 4)
       [] opcode \in {\hC6, \hCE, \hD6, \hDE, \hE6, \hEE, \hF6, \hFE} ->
            Bind(read_byte(m), LAMBDA n :
            R(alu8(n.m, dst, n.v), 7))
       [] opcode \in \h80 .. \hBF /\ src = 6 ->
            Bind(read_byte_at(m, hl(m)), LAMBDA r :
            R(alu8(r.m, dst, r.v), 7))
       \* add hl, rr
       [] opcode \in {\h09, \h19, \h29, \h39} ->
            Bind(add16(m, hl(m), pair(m, k)), LAMBDA o :
            R(set_hl(o.m, o.v), 11))
       \* inc rr
       [] opcode \in {\h03, \h13, \h23, \h33} ->
            Bind(inc16(m, pair(m, k)), LAMBDA o :
            R(set_pair(o.m, k, o.v), 6))
       \* dec rr; the dec sp row calls inc16
       [] opcode \in {\h0B, \h1B, \h2B} ->
            Bind(dec16(m, pair(m, k)), LAMBDA o :
            R(set_pair(o.m, k, o.v), 6))
       [] opcode = \h3B ->
            Bind(inc16(m, m.z.sp), LAMBDA o :
            R([o.m EXCEPT !.z.sp = o.v], 6))
       \* jp
       [] opcode = \hC3 -> R(jp(m, 1), 10)
       [] opcode \in {\hC2, \hCA, \hD2, \hDA, \hE2, \hEA, \hF2, \hFA} ->
            R(jp(m, Cond(m, dst)), 10)
       [] opcode = \hE9 -> R([m EXCEPT !.z.pc = hl(m)], 4)
       \* jr, djnz
       [] opcode = \h18 -> v2m(jr(m, 1))
       [] opcode = \h28 -> v2m(jr(m, zf(m)))
       [] opcode = \h20 -> v2m(jr(m, Not(zf(m))))
       [] opcode = \h38 -> v2m(jr(m, cf(m)))
       [] opcode = \h30 -> v2m(jr(m, Not(cf(m))))
       [] opcode = \h10 ->
            Bind(setreg(m, "b", reg(m, "b") - 1), LAMBDA m1 :
            Bind(jr(m1, B2N(reg(m1, "b") # 0)), LAMBDA j :
            R(j.m, j.v + 1)))
       [] opcode = \h27 -> R(daa(m), 4)
       [] opcode = \h2F -> R(cpl(m), 4)
       [] opcode = \h3F -> R(ccf(m), 4)
       [] opcode = \h37 -> R(scf(m), 4)
       [] opcode = \h00 -> R(m, 4)
       [] opcode = \h76 -> R([m EXCEPT !.z.halt = 1], 4)
       [] opcode = \hF3 -> R(set_iff2(set_iff1(m, 0), 0), 4)
       [] opcode = \hFB -> R(set_iff2(set_iff1(m, 1), 1), 4)
       \* rlca
       [] opcode = \h07 ->
            Bind(set_cf(m, B2N(BitAnd(reg(m, "a"), 128) # 0)), LAMBDA m1 :
            Bind(setreg(m1, "a", BitOr(reg(m1, "a") * 2, cf(m1))), LAMBDA m2 :
            Bind(set_hf(set_nf(m2, 0), 0), LAMBDA m3 :
            Bind(set_yf(m3, bit(reg(m3, "a"), 5)), LAMBDA m4 :
            R(set_xf(m4, bit(reg(m4, "a"), 3)), 4)))))
       \* rrca
       [] opcode = \h0F ->
            Bind(set_cf(m, B2N(BitAnd(reg(m, "a"), 1) # 0)), LAMBDA m1 :
            Bind(set_hf(set_nf(m1, 0), 0), LAMBDA m2 :
            Bind(setreg(m2, "a", BitOr(reg(m2, "a") \div 2, cf(m2) * 128)), LAMBDA m3 :
            Bind(set_yf(m3, bit(reg(m3, "a"), 5)), LAMBDA m4 :
            R(set_xf(m4, bit(reg(m4, "a"), 3)), 4)))))
       \* ex de, hl
       [] opcode = \hEB ->
            Bind(de(m), LAMBDA tmp16 :
            R(set_hl(set_de(m, hl(m)), tmp16), 4))
       \* ex af, af'
       [] opcode = \h08 ->
            Bind(m.z.main.a, LAMBDA t1 :
            Bind([m EXCEPT !.z.alt.a = m.z.main.a], LAMBDA m1 :
            Bind([m1 EXCEPT !.z.main.a = t1], LAMBDA m2 :
            Bind(m2.z.main.f, LAMBDA t2 :
            Bind([m2 EXCEPT !.z.alt.f = m2.z.main.f], LAMBDA m3 :
            R([m3 EXCEPT !.z.main.f = t2], 4))))))
       \* exx
       [] opcode = \hD9 ->
            R([m EXCEPT !.z.cur = IF @ = "main" THEN "alt" ELSE "main"], 4)
       \* ex (sp), hl
       [] opcode = \hE3 ->
            Bind(read_word_at(m, m.z.sp, lf), LAMBDA w :
            Bind(write_word_at(w.m, hl(w.m), w.m.z.sp), LAMBDA m1 :
            R(set_hl(m1, w.v), 4)))
       \* rla
       [] opcode = \h17 ->
            Bind(B2N(BitAnd(reg(m, "a"), 128) # 0), LAMBDA tmp8 :
            Bind(setreg(m, "a", BitOr(reg(m, "a") * 2, BitAnd(cf(m), 1))), LAMBDA m1 :
            Bind(set_hf(set_nf(set_cf(m1, tmp8), 0), 0), LAMBDA m2 :
            Bind(set_yf(m2, bit(reg(m2, "a"), 5)), LAMBDA m3 :
            R(set_xf(m3, bit(reg(m3, "a"), 3)), 4)))))
       \* rra
       [] opcode = \h1F ->
            Bind(set_cf(m, bit(reg(m, "a"), 0)), LAMBDA m1 :
            Bind(setreg(m1, "a", BitOr(cf(m1) * 128, reg(m1, "a") \div 2)), LAMBDA m2 :
            Bind(set_hf(set_nf(m2, 0), 0), LAMBDA m3 :
            Bind(set_yf(m3, bit(reg(m3, "a"), 5)), LAMBDA m4 :
            R(set_xf(m4, bit(reg(m4, "a"), 3)), 4)))))
       \* inc (hl) / dec (hl)
       [] opcode = \h34 ->
            Bind(read_byte_at(m, hl(m)), LAMBDA r :
            Bind(inc8(r.m, r.v), LAMBDA o :
            R(write_byte_at(o.m, o.v, hl(o.m)), 11)))
       [] opcode = \h35 ->
            Bind(read_byte_at(m, hl(m)), LAMBDA r :
            Bind(dec8(r.m, r.v), LAMBDA o :
            R(write_byte_at(o.m, o.v, hl(o.m)), 11)))
       \* call
       [] opcode = \hCD -> Bind(read_word(m), LAMBDA a :
                           v2m(call(a.m, 1, a.v)))
       [] opcode \in {\hC4, \hCC, \hD4, \hDC, \hE4, \hEC, \hF4, \hFC} ->
            Bind(read_word(m), LAMBDA a :
            v2m(call(a.m, Cond(m, dst), a.v)))
       \* ret
       [] opcode = \hC9 -> v2m(ret(m, 1))
       [] opcode \in {\hC0, \hC8, \hD0, \hD8, \hE0, \hE8, \hF0, \hF8} ->
            v2m(ret(m, Cond(m, dst)))
       \* rst p
       [] opcode \in {\hC7, \hCF, \hD7, \hDF, \hE7, \hEF, \hF7, \hFF} ->
            v2m(call(m, 1, opcode - \hC7))
       \* the prefixes
       [] opcode = \hCB ->
            Bind(read_byte(m), LAMBDA o :
            z80e_execute_cb(o.m, o.v))
       [] opcode = \hED ->
            Bind(read_byte(m), LAMBDA o :
            z80e_execute_ed(o.m, o.v, lf))
       [] opcode = \hDD ->
            Bind(read_byte(m), LAMBDA o :
            z80e_execute_ddfd(o.m, "ix", o.v, lf))
       [] opcode = \hFD ->
            Bind(read_byte(m), LAMBDA o :
            z80e_execute_ddfd(o.m, "iy", o.v, lf))
       [] OTHER -> R(m, Z80E_INVALID_OPCODE))))

(* ---------------------------- the public API --------------------------- *)

ZeroRegisters ==
  [a |-> 0, b |-> 0, d |-> 0, h |-> 0, f |-> 0, c |-> 0, e |-> 0, l |-> 0]

\* the struct after z80e_init: every byte cleared, cur pointing at main
z80e_init ==
  [main |-> ZeroRegisters, alt |-> ZeroRegisters, cur |-> "main",
   i |-> 0, r |-> 0, ix |-> 0, iy |-> 0, sp |-> 0, pc |-> 0, u |-> 0,
   cur_reg_set |-> 0, halt |-> 0, iff |-> 0, int_mode |-> 0, tmp |-> 0,
   error |-> Z80E_OK]

\* the test with its sign turned round
is_error_pos(r) == r > 0

\* the `ret < 0` test that decides whether the result is recorded
is_error(r) == r < 0

\* z80e_instruction without the early return on a recorded error
z80e_instruction_nosticky(z, memory, lf) ==
  Bind([z |-> z, mem |-> memory, bus |-> <<>>], LAMBDA m0 :
  IF z.halt # 0 THEN [m |-> m0, ret |-> 4]
     ELSE Bind(read_byte(m0), LAMBDA o :
          Bind(z80e_execute(o.m, o.v, lf), LAMBDA e :
          Bind(zi8(U8(e.ret)), LAMBDA r :
          IF r < 0 THEN [m |-> [e.m EXCEPT !.z.error = r], ret |-> r]
             ELSE [m |-> e.m, ret |-> r]))))

\* z80e_instruction without the early return on halt
z80e_instruction_nohalt(z, memory, lf) ==
  Bind([z |-> z, mem |-> memory, bus |-> <<>>], LAMBDA m0 :
  IF z.error # 0 THEN [m |-> m0, ret |-> zi8(U8(z.error))]
     ELSE Bind(read_byte(m0), LAMBDA o :
          Bind(z80e_execute(o.m, o.v, lf), LAMBDA e :
          Bind(zi8(U8(e.ret)), LAMBDA r :
          IF r < 0 THEN [m |-> [e.m EXCEPT !.z.error = r], ret |-> r]
             ELSE [m |-> e.m, ret |-> r]))))

\* z80e_instruction that also halts the processor when it records an error
z80e_instruction_errhalt(z, memory, lf) ==
  Bind([z |-> z, mem |-> memory, bus |-> <<>>], LAMBDA m0 :
  IF z.error # 0 THEN R(m0, zi8(U8(z.error)))
     ELSE IF z.halt # 0 THEN R(m0, 4)
     ELSE Bind(read_byte(m0), LAMBDA o :
          Bind(z80e_execute(o.m, o.v, lf), LAMBDA e :
          Bind(zi8(U8(e.ret)), LAMBDA r :
          IF is_error(r) THEN R([e.m EXCEPT !.z.error = r, !.z.halt = 1], r)
             ELSE R(e.m, r)))))

\* one call; the result is the machine it leaves and the zi8 it returns
z80e_instruction(z, memory, lf) ==
  Bind([z |-> z, mem |-> memory, bus |-> <<>>], LAMBDA m0 :
  IF z.error # 0 THEN R(m0, zi8(U8(z.error)))
     ELSE IF z.halt # 0 THEN R(m0, 4)
     ELSE Bind(read_byte(m0), LAMBDA o :
          Bind(z80e_execute(o.m, o.v, lf), LAMBDA e :
          Bind(zi8(U8(e.ret)), LAMBDA r :
          IF is_error(r) THEN R([e.m EXCEPT !.z.error = r], r)
             ELSE R(e.m, r)))))

z80e_halt(z) == [z EXCEPT !.halt = 1]

(* ------------------------- the host and its inputs --------------------- *)

\* a memory image: the bytes of a program loaded at an address, 0 elsewhere
Load(at, bytes) ==
  [a \in {U16(at + i) : i \in 0 .. (Len(bytes) - 1)} |->
     bytes[((a - at) % 65536) + 1]]

Prefixes == {\hCB, \hED, \hDD, \hFD}

\* registers as the embedder presets them before it runs a program
Busy ==
  [z80e_init EXCEPT
     !.main = [a |-> \h5A, b |-> \h01, c |-> \h02, d |-> \h40, e |-> \h10,
               h |-> \h40, l |-> \h00, f |-> \hD7],
     !.alt = [a |-> \hA5, b |-> \h11, c |-> \h12, d |-> \h13, e |-> \h14,
              h |-> \h15, l |-> \h16, f |-> \h28],
     !.sp = \h8000, !.ix = \h4100, !.iy = \h4200, !.i = \h3C, !.r = \h7F]

\* the second and third bytes tried after a first byte that is no prefix
TailBytes == {\h00, \h76, \hD3, \hFE}

Images ==
  {Load(0, <<b0, b1, b2>>) :
     b0 \in (0 .. 255) \ Prefixes, b1 \in TailBytes, b2 \in {\h00, \hD3}}
  \cup
  {Load(0, <<b0, b1, b2>>) :
     b0 \in Prefixes, b1 \in 0 .. 255, b2 \in {\h00, \hD3}}

(* ------------------------------- actions ------------------------------- *)

InitWith(z, memory) ==
  /\ z80 = z
  /\ mem = memory
  /\ bus = <<>>
  /\ retval = 0
  /\ pre = [z |-> z, mem |-> memory]
  /\ last = "init"
  /\ nsteps = 0
  /\ start = [z |-> z, mem |-> memory]

Init == \E z \in {z80e_init, Busy}, image \in Images : InitWith(z, image)

\* the embedder calls z80e_instruction
Step ==
  /\ nsteps < MaxSteps
  /\ \E lf \in BOOLEAN :
       \E o \in {z80e_instruction(z80, mem, lf)} :
          /\ z80' = o.m.z
          /\ mem' = o.m.mem
          /\ bus' = o.m.bus
          /\ retval' = o.ret
  /\ pre' = [z |-> z80, mem |-> mem]
  /\ last' = "step"
  /\ nsteps' = nsteps + 1
  /\ UNCHANGED start

\* the embedder calls z80e_halt
Halt ==
  /\ nsteps < MaxSteps
  /\ z80' = z80e_halt(z80)
  /\ pre' = [z |-> z80, mem |-> mem]
  /\ last' = "halt"
  /\ nsteps' = nsteps + 1
  /\ UNCHANGED <<mem, bus, retval, start>>

\* the embedder re-initialises the CPU with z80e_init
\* a re-initialisation that clears the registers but neither halt nor error
Reinit_partial ==
  /\ nsteps < MaxSteps
  /\ z80' = [z80e_init EXCEPT !.halt = z80.halt, !.error = z80.error]
  /\ pre' = [z |-> z80, mem |-> mem]
  /\ last' = "init"
  /\ nsteps' = nsteps + 1
  /\ UNCHANGED <<mem, bus, retval, start>>

Reinit ==
  /\ nsteps < MaxSteps
  /\ z80' = z80e_init
  /\ pre' = [z |-> z80, mem |-> mem]
  /\ last' = "init"
  /\ nsteps' = nsteps + 1
  /\ UNCHANGED <<mem, bus, retval, start>>

Next == Step \/ Halt \/ Reinit

Spec == Init /\ [][Next]_vars

(* ------------------ the 8-bit ALU on bounded inputs -------------------- *)

\* operand values around the nibble, sign and byte boundaries
Operands ==
  {\h00, \h01, \h0F, \h10, \h7F, \h80, \hFF, \hFE, \h81, \h7E,
   \hF0, \h0E, \h55, \hAA, \h99, \h9A}

\* add adc sub sbc cp with the operand in b, in a, at (hl), and immediate
AluSelfOpcodes == {\h87, \h8F, \h97, \h9F, \hBF}
AluOpcodes ==
  {\h80, \h88, \h90, \h98, \hB8} \cup AluSelfOpcodes
  \cup {\h86, \h8E, \h96, \h9E, \hBE} \cup {\hC6, \hCE, \hD6, \hDE, \hFE}

\* inc/dec of b, of a and of (hl), and the DD rows at 32, 34 and 35
IncDecPrograms ==
  {<<\h04>>, <<\h05>>, <<\h3C>>, <<\h3D>>, <<\h34>>, <<\h35>>,
   <<\hDD, \h32, \hFE>>, <<\hDD, \h34, \hFE>>, <<\hDD, \h35, \hFE>>}

DataAddr == \h4000

AluPreset(a, v, f) ==
  [z80e_init EXCEPT !.main.a = a, !.main.b = v, !.main.f = f,
                    !.main.h = DataAddr \div 256, !.main.l = DataAddr % 256,
                    !.ix = DataAddr + 2, !.sp = \h8000]

AluImage(bytes, v) ==
  LET prog == Load(0, bytes)
  IN [x \in (DOMAIN prog) \cup {DataAddr} |->
        IF x = DataAddr THEN v ELSE prog[x]]

InitAlu ==
  \/ \E a \in 0 .. 255, v \in Operands, f \in {\h00, \hFF},
        op \in AluOpcodes \ AluSelfOpcodes :
       InitWith(AluPreset(a, v, f), AluImage(<<op, v>>, v))
  \/ \E a \in 0 .. 255, f \in {\h00, \hFF}, op \in AluSelfOpcodes :
       InitWith(AluPreset(a, a, f), AluImage(<<op>>, a))

StepAlu == nsteps < AluSteps /\ Step

NextAlu == StepAlu

SpecAlu == InitAlu /\ [][NextAlu]_vars

\* every operand value under inc and dec, with the carry set and clear
InitIncDec ==
  \E x \in 0 .. 255, f \in {\h00, \h01, \hFE, \hFF}, p \in IncDecPrograms :
    InitWith(AluPreset(x, x, f), AluImage(p, x))

StepIncDec == nsteps < AluSteps /\ Step

NextIncDec == StepIncDec

SpecIncDec == InitIncDec /\ [][NextIncDec]_vars

(* --------------------- the stack on bounded inputs --------------------- *)

StackPointers == {\h0000, \h0001, \h0002, \hFFFF, \h8000, \h0102, \h0103}
PushPrograms == {<<\hC5>>, <<\hD5>>, <<\hE5>>, <<\hF5>>, <<\hDD, \hE5>>, <<\hFD, \hE5>>}
PopPrograms == {<<\hC1>>, <<\hD1>>, <<\hE1>>, <<\hF1>>, <<\hDD, \hE1>>, <<\hFD, \hE1>>}
CodeAddr == \h0100

StackPreset(hi, lo, s) ==
  [z80e_init EXCEPT
     !.main = [a |-> hi, f |-> lo, b |-> hi, c |-> lo, d |-> hi, e |-> lo,
               h |-> hi, l |-> lo],
     !.ix = hi * 256 + lo, !.iy = hi * 256 + lo, !.sp = s, !.pc = CodeAddr]

InitStack ==
  \E hi \in Operands, lo \in Operands, s \in StackPointers,
     p \in PushPrograms, q \in PopPrograms :
       InitWith(StackPreset(hi, lo, s), Load(CodeAddr, p \o q))

StepStack == nsteps < StackSteps /\ Step

NextStack == StepStack

SpecStack == InitStack /\ [][NextStack]_vars

(* ------------------ calls, returns and relative jumps ------------------ *)

CallOps == {\hCD, \hC4, \hCC, \hD4, \hDC, \hE4, \hEC, \hF4, \hFC}
RetOps == {\hC9, \hC0, \hC8, \hD0, \hD8, \hE0, \hE8, \hF0, \hF8}
RstOps == {\hC7, \hCF, \hD7, \hDF, \hE7, \hEF, \hF7, \hFF}
JrOps == {\h18, \h28, \h20, \h38, \h30}
DjnzOp == \h10

\* F with each of Z, C, P/V and S alone, none and all
FlowFlags == {\h00, \hFF, \h40, \h01, \h04, \h80}
\* addresses of the instruction, two of them wrapping round 0xFFFF
FlowOrigins == {\h0000, \h0100, \hFFFD, \hFFFE}
FlowTargets == {\h0010, \h2000}
\* stacks clear of the code, wrapping, and overlapping the call target
FlowStacks == {\hFFF0, \h0000, \h0001, \h0012, \h2001}

FlowPreset(p, s, f, b) ==
  [z80e_init EXCEPT !.main.f = f, !.main.b = b, !.sp = s, !.pc = p]

InitFlow ==
  \/ \E op \in CallOps, p \in FlowOrigins, nn \in FlowTargets, r \in RetOps,
        f \in FlowFlags, s \in FlowStacks :
       InitWith(FlowPreset(p, s, f, 0),
                Load(p, <<op, lsb(nn), msb(nn)>>) @@ Load(nn, <<r>>))
  \/ \E op \in RstOps \cup RetOps, p \in FlowOrigins, f \in FlowFlags,
        s \in FlowStacks :
       InitWith(FlowPreset(p, s, f, 0),
                Load(p, <<op>>) @@ Load(s, <<\h34, \h12>>))
  \/ \E op \in JrOps \cup {DjnzOp}, d \in 0 .. 255, p \in FlowOrigins,
        f \in FlowFlags, b \in {1, 2} :
       InitWith(FlowPreset(p, \hFFF0, f, b), Load(p, <<op, d>>))

StepFlow == nsteps < FlowSteps /\ Step

NextFlow == StepFlow

SpecFlow == InitFlow /\ [][NextFlow]_vars

(* ------------------------- block move and search ----------------------- *)

LdBlockOps == {\hA0, \hA8, \hB0, \hB8}
CpBlockOps == {\hA1, \hA9, \hB1, \hB9}
\* the ops that run towards lower addresses: ldd lddr cpd cpdr
DownOps == {\hA8, \hB8, \hA9, \hB9}

BlockOrigins == {\h0000, \h0100}
\* <<HL, DE>>: apart, wrapping, overlapping each other, DE on the instruction
BlockPairs ==
  {<<\h1000, \h2000>>, <<\hFFFF, \h2000>>, <<\h1000, \hFFFE>>,
   <<\h1000, \h1001>>, <<\h1000, \h0000>>, <<\h1000, \h0101>>}
BlockBytes == {\hAA, \h55}
SearchBytes == {\hAA, \h00, \h55}

\* the bytes buf laid out from hl in the direction op runs
BlockBuffer(op, hl0, buf) ==
  [a \in {U16(hl0 + (IF op \in DownOps THEN 0 - i ELSE i)) :
            i \in 0 .. (Len(buf) - 1)} |->
     buf[(IF op \in DownOps THEN (hl0 - a) % 65536 ELSE (a - hl0) % 65536) + 1]]

BlockPreset(p, a, f, n, hl0, de0) ==
  [z80e_init EXCEPT
     !.main.a = a, !.main.f = f, !.main.b = n \div 256, !.main.c = n % 256,
     !.main.h = hl0 \div 256, !.main.l = hl0 % 256,
     !.main.d = de0 \div 256, !.main.e = de0 % 256, !.pc = p, !.sp = \h8000]

InitBlock ==
  \/ \E op \in LdBlockOps, p \in BlockOrigins, n \in 0 .. MaxCount,
        hd \in BlockPairs, a \in {\h00, \hFF}, f \in {\h00, \hFF},
        x0 \in BlockBytes, x1 \in BlockBytes, x2 \in BlockBytes :
       InitWith(BlockPreset(p, a, f, n, hd[1], hd[2]),
                Load(p, <<\hED, op, \h76>>)
                  @@ BlockBuffer(op, hd[1], <<x0, x1, x2>>))
  \/ \E op \in CpBlockOps, p \in BlockOrigins, n \in 0 .. MaxCount,
        hl0 \in {\h1000, \hFFFF}, a \in {\hAA, \h00}, f \in {\h00, \hFF},
        x0 \in SearchBytes, x1 \in SearchBytes, x2 \in SearchBytes :
       InitWith(BlockPreset(p, a, f, n, hl0, \h2000),
                Load(p, <<\hED, op, \h76>>)
                  @@ BlockBuffer(op, hl0, <<x0, x1, x2>>))
  \/ \E op \in {\hA1, \hA9}, a \in 0 .. 255, x \in Operands,
        f \in {\h00, \hFF} :
       InitWith(BlockPreset(0, a, f, 1, \h1000, \h2000),
                Load(0, <<\hED, op, \h76>>) @@ Load(\h1000, <<x>>))

StepBlock == nsteps < BlockSteps /\ Step

NextBlock == StepBlock

SpecBlock == InitBlock /\ [][NextBlock]_vars

(* --------------------------- register exchanges ------------------------ *)

\* ex af,af' and exx
ExOps == {\h08, \hD9}
\* what follows the first exchange: a second one, add a,1 or push af
ExTails == {<<\h08>>, <<\hD9>>, <<\hC6, \h01>>, <<\hF5>>}
\* values of A and A', some of them equal
ExAccs == {\h5A, \hA5}
\* values of F and F', some of them equal
ExFlags == {\h01, \h80}

ExPreset(a, f, a2, f2) ==
  [Busy EXCEPT !.main.a = a, !.main.f = f, !.alt.a = a2, !.alt.f = f2]

InitExchange ==
  \E op \in ExOps, t \in ExTails, a \in ExAccs, f \in ExFlags,
     a2 \in ExAccs, f2 \in ExFlags :
       InitWith(ExPreset(a, f, a2, f2), Load(0, <<op>> \o t))

StepExchange == nsteps < ExSteps /\ Step

NextExchange == StepExchange

SpecExchange == InitExchange /\ [][NextExchange]_vars

(* ------------------------- 16-bit addition ----------------------------- *)

\* add hl,bc / de / hl / sp
AddHlOps == {\h09, \h19, \h29, \h39}
\* ED-prefixed adc hl,rr and sbc hl,rr for rr = bc, de, hl, sp
AdcHlOps == {\h4A, \h5A, \h6A, \h7A}
SbcHlOps == {\h42, \h52, \h62, \h72}

\* 16-bit values around the byte, bit-11 and bit-15 boundaries
WideValues ==
  {\h0000, \h0001, \h00FF, \h0100, \h0800, \h0FFF, \h1000, \h2800,
   \h7FFF, \h8000, \h8001, \hF000, \hF801, \hFFFF}

\* HL = hl0 and the other pairs and SP = w
WidePreset(hl0, w, f) ==
  [z80e_init EXCEPT
     !.main.f = f, !.main.h = hl0 \div 256, !.main.l = hl0 % 256,
     !.main.b = w \div 256, !.main.c = w % 256,
     !.main.d = w \div 256, !.main.e = w % 256, !.sp = w]

InitWide ==
  \/ \E op \in AddHlOps, hl0 \in WideValues, w \in WideValues,
        f \in {\h00, \hFF} :
       InitWith(WidePreset(hl0, w, f), Load(0, <<op>>))
  \/ \E op \in AdcHlOps \cup SbcHlOps, hl0 \in WideValues, w \in WideValues,
        f \in {\h00, \hFF} :
       InitWith(WidePreset(hl0, w, f), Load(0, <<\hED, op>>))

StepWide == nsteps < WideSteps /\ Step

NextWide == StepWide

SpecWide == InitWide /\ [][NextWide]_vars

(* ---------------------- rotates, shifts and bit tests ------------------ *)

\* second bytes of the CB-prefixed rotate, shift and bit n instructions
CBOps == \h00 .. \h7F

\* every 8-bit register holds x; HL is hl0
CBPreset(x, f, hl0) ==
  [z80e_init EXCEPT
     !.main = [a |-> x, b |-> x, c |-> x, d |-> x, e |-> x,
               h |-> hl0 \div 256, l |-> hl0 % 256, f |-> f],
     !.sp = \h8000]

\* the operand holds x whichever it is: a register, or the byte at HL
InitCB ==
  \E op \in CBOps, x \in 0 .. 255, f \in {\h00, \hFF} :
    IF op % 8 = 6
    THEN InitWith(CBPreset(x, f, DataAddr), AluImage(<<\hCB, op>>, x))
    ELSE InitWith(CBPreset(x, f, x * 257), Load(0, <<\hCB, op>>))

StepCB == nsteps < CBSteps /\ Step

NextCB == StepCB

SpecCB == InitCB /\ [][NextCB]_vars

(* --------------------- accumulator and flag programs ------------------- *)

\* rlca rrca rla rra
AccRotateOps == {\h07, \h0F, \h17, \h1F}
\* ccf scf
CarryOps == {\h3F, \h37}
\* and / xor / or with the operand in b, at (hl), in a, and immediate
AndOps == {\hA0, \hA6, \hA7, \hE6}
XorOps == {\hA8, \hAE, \hAF, \hEE}
OrOps == {\hB0, \hB6, \hB7, \hF6}
\* add a,n / adc a,n / sub n / sbc a,n, each followed by daa
BcdOps == {\hC6, \hCE, \hD6, \hDE}
DaaOp == \h27
HaltOp == \h76

\* the bytes whose two nibbles are decimal digits
BcdBytes == {16 * hi + lo : hi \in 0 .. 9, lo \in 0 .. 9}

\* flag bytes with each of S, Z, H, P/V, N, C set and clear
AccFlags == {\h00, \h01, \h02, \h10, \h44, \h80, \hFE, \hFF}

InitAcc ==
  \/ \E op \in AccRotateOps \cup CarryOps, a \in 0 .. 255, f \in AccFlags :
       InitWith(AluPreset(a, a, f), Load(0, <<op, HaltOp>>))
  \/ \E op \in AndOps \cup XorOps \cup OrOps, a \in 0 .. 255, v \in Operands,
        f \in {\h00, \hFF} :
       /\ op % 8 = 7 => v = a
       /\ InitWith(AluPreset(a, v, f),
                   AluImage(IF op \in {\hE6, \hEE, \hF6}
                            THEN <<op, v, HaltOp>> ELSE <<op, HaltOp>>, v))
  \/ \E op \in BcdOps, a \in BcdBytes, v \in BcdBytes, f \in {\h00, \h01} :
       InitWith(AluPreset(a, v, f), Load(0, <<op, v, DaaOp, HaltOp>>))

\* the embedder calls z80e_instruction until the halt flag is set
StepAcc == nsteps < AccSteps /\ z80.halt = 0 /\ Step

NextAcc == StepAcc

SpecAcc == InitAcc /\ [][NextAcc]_vars

(* ------------------------- straight-line programs ---------------------- *)

\* calls of z80e_instruction in one run of a straight-line program
RunSteps == 8

RlcaOp == \h07
\* ld (nn),hl and ld hl,(nn)
StoreHlOp == \h22
LoadHlOp == \h2A
\* inc rr and dec rr for rr = bc de hl sp
IncPairOps == {\h03, \h13, \h23, \h33}
DecPairOps == {\h0B, \h1B, \h2B, \h3B}

\* targets of the store: inside a page, across a page boundary
StoreAddrs == {\h1234, \h4000, \h40FF}

InitRun ==
  \/ \E a \in 0 .. 255, f \in AccFlags :
       InitWith(AluPreset(a, a, f),
                Load(0, <<RlcaOp, RlcaOp, RlcaOp, RlcaOp,
                          RlcaOp, RlcaOp, RlcaOp, RlcaOp, HaltOp>>))
  \/ \E hl0 \in WideValues, nn \in StoreAddrs, f \in {\h00, \hFF} :
       InitWith(WidePreset(hl0, \h8000, f),
                Load(0, <<StoreHlOp, nn % 256, nn \div 256,
                          LoadHlOp, nn % 256, nn \div 256, HaltOp>>))
  \/ \E op \in IncPairOps, w \in WideValues, f \in {\h00, \hFF} :
       \/ InitWith(WidePreset(w, w, f), Load(0, <<op, op + 8, HaltOp>>))
       \/ InitWith(WidePreset(w, w, f), Load(0, <<op + 8, op, HaltOp>>))

\* the embedder calls z80e_instruction until the halt flag is set
StepRun ==
  /\ nsteps < RunSteps
  /\ z80.halt = 0
  /\ \E lf \in BOOLEAN :
       \E o \in {z80e_instruction(z80, mem, lf)} :
          /\ z80' = o.m.z
          /\ mem' = o.m.mem
          /\ bus' = o.m.bus
          /\ retval' = o.ret
  /\ pre' = [z |-> z80, mem |-> mem]
  /\ last' = "step"
  /\ nsteps' = nsteps + 1
  /\ UNCHANGED start

NextRun == StepRun

SpecRun == InitRun /\ [][NextRun]_vars

(* --------------------------- the Python binding ------------------------ *)

\* the names set_register and get_register compare against
MainNames == {"a", "b", "c", "d", "e", "f", "h", "l"}
AltNames ==
  [a_alt |-> "a", b_alt |-> "b", c_alt |-> "c", d_alt |-> "d",
   e_alt |-> "e", f_alt |-> "f", h_alt |-> "h", l_alt |-> "l"]
ByteNames == {"i", "r"}
WordNames == {"pc", "sp", "ix", "iy"}

\* Py_None, which the methods return when they have no number to return
PyNone == -1

\* the assignment converts the int value to the width of the field; an
\* unknown name raises ValueError and leaves the registers alone
Z80_set_register(z, name, value) ==
  CASE name \in MainNames -> [z EXCEPT !.main[name] = U8(value)]
    [] name \in DOMAIN AltNames -> [z EXCEPT !.alt[AltNames[name]] = U8(value)]
    [] name \in ByteNames -> [z EXCEPT ![name] = U8(value)]
    [] name \in WordNames -> [z EXCEPT ![name] = U16(value)]
    [] OTHER -> z

\* the 8-bit names are read through reg.cur; there are no _alt names here
Z80_get_register(z, name) ==
  CASE name \in MainNames -> z[z.cur][name]
    [] name \in ByteNames \cup WordNames -> z[name]
    [] OTHER -> PyNone

\* calls of the methods of one Z80 object
PySteps == 3

PyValues == {\h5A, \hA5}
PyPrograms == {<<\hD9, \hD9, \hD9>>, <<\hD9, \h00, \hD9>>, <<\h00, \hD9, \h08>>}

\* Z80_init: the callbacks are stored and z80e_init is called
InitPy == \E prog \in PyPrograms : InitWith(z80e_init, Load(0, prog))

\* Z80_instruction: the result of z80e_instruction is dropped
StepPy ==
  /\ nsteps < PySteps
  /\ \E lf \in BOOLEAN :
       \E o \in {z80e_instruction(z80, mem, lf)} :
          /\ z80' = o.m.z
          /\ mem' = o.m.mem
          /\ bus' = o.m.bus
  /\ retval' = PyNone
  /\ pre' = [z |-> z80, mem |-> mem]
  /\ last' = "step"
  /\ nsteps' = nsteps + 1
  /\ UNCHANGED start

SetRegister ==
  /\ nsteps < PySteps
  /\ \E name \in MainNames \cup DOMAIN AltNames \cup ByteNames \cup WordNames,
        value \in PyValues :
       z80' = Z80_set_register(z80, name, value)
  /\ retval' = PyNone
  /\ pre' = [z |-> z80, mem |-> mem]
  /\ last' = "set"
  /\ nsteps' = nsteps + 1
  /\ UNCHANGED <<mem, bus, start>>

GetRegister ==
  /\ nsteps < PySteps
  /\ \E name \in MainNames \cup ByteNames \cup WordNames \cup {"a_alt"} :
       retval' = Z80_get_register(z80, name)
  /\ pre' = [z |-> z80, mem |-> mem]
  /\ last' = "get"
  /\ nsteps' = nsteps + 1
  /\ UNCHANGED <<z80, mem, bus, start>>

\* Z80_reset
ResetPy ==
  /\ nsteps < PySteps
  /\ z80' = z80e_init
  /\ retval' = PyNone
  /\ pre' = [z |-> z80, mem |-> mem]
  /\ last' = "init"
  /\ nsteps' = nsteps + 1
  /\ UNCHANGED <<mem, bus, start>>

NextPy == StepPy \/ SetRegister \/ GetRegister \/ ResetPy

SpecPy == InitPy /\ [][NextPy]_vars

(* ------------------------- vocabulary of the claims -------------------- *)

\* the bytes at the pc the last call was entered with
PreOp == Peek(pre.mem, pre.z.pc)
PreOp1 == Peek(pre.mem, U16(pre.z.pc + 1))

\* the last operation was a call that fetched and executed an instruction
Executed == last = "step" /\ pre.z.error = 0 /\ pre.z.halt = 0

\* the selected bank before and after the last call
PreRegs == pre.z[pre.z.cur]
Regs == z80[z80.cur]

\* the case labels of the four switch statements
RootCases == (0 .. 255) \ {\hD3, \hDB}
CBCases == (0 .. 255) \ (\h30 .. \h37)
EDCases ==
  {\h47, \h4F, \h4B, \h5B, \h6B, \h7B, \h43, \h53, \h63, \h73,
   \hA0, \hB0, \hA8, \hB8, \hA1, \hB1, \hA9, \hB9,
   \h44, \h46, \h56, \h5E, \h57, \h5F}
DDFDCases ==
  {\h7E, \h46, \h4E, \h56, \h5E, \h66, \h6E,
   \h70, \h71, \h72, \h73, \h74, \h75, \h77,
   \h22, \hF9, \h21, \h2A, \hE5, \hE1,
   \h86, \h8E, \h96, \h9E, \hA6, \hB6, \hAE, \hBE, \h32, \h35, \h36, \hE3}

\* the bytes at pc select a case of the table they are decoded in
Matches(b0, b1) ==
  CASE b0 = \hCB -> b1 \in CBCases
    [] b0 = \hED -> b1 \in EDCases
    [] b0 \in {\hDD, \hFD} -> b1 \in DDFDCases
    [] OTHER -> b0 \in RootCases

(* --------------------------------- C1 ---------------------------------- *)

\* C1: a negative return value is recorded in the error field, and a call
\* entered with a recorded error returns that code, issues no bus access and
\* changes neither the CPU nor memory; z80e_halt does not clear the error.
C1_StickyError ==
  /\ (last = "step" /\ retval < 0) => z80.error = retval
  /\ (last = "step" /\ pre.z.error # 0) =>
        /\ retval = pre.z.error
        /\ bus = <<>>
        /\ z80 = pre.z
        /\ mem = pre.mem
  /\ (last = "halt" /\ pre.z.error # 0) => z80.error = pre.z.error

\* a call was made on a CPU that had already recorded an error
C1_Witness == last = "step" /\ pre.z.error = Z80E_INVALID_OPCODE /\ retval = -2

(* --------------------------------- C2 ---------------------------------- *)

\* C2 as stated: every call entered with the halt flag set returns 4, issues
\* no bus access and changes nothing.
C2_Original ==
  (last = "step" /\ pre.z.halt # 0) =>
     /\ retval = 4
     /\ bus = <<>>
     /\ z80 = pre.z
     /\ mem = pre.mem

\* C2 amended: a call entered with the halt flag set issues no bus access
\* and changes nothing (so the halt flag stays set); it returns 4 unless an
\* error is recorded, in which case it returns the error code.  The HALT
\* instruction and z80e_halt set the flag.
C2_Halted ==
  /\ (last = "step" /\ pre.z.halt # 0) =>
        /\ retval = (IF pre.z.error # 0 THEN pre.z.error ELSE 4)
        /\ bus = <<>>
        /\ z80 = pre.z
        /\ mem = pre.mem
  /\ (Executed /\ PreOp = \h76) => (z80.halt = 1 /\ retval = 4)
  /\ last = "halt" => z80.halt = 1

\* a call was made on a halted CPU with no error recorded
C2_Witness ==
  last = "step" /\ pre.z.halt # 0 /\ pre.z.error = 0 /\ retval = 4

(* --------------------------------- C3 ---------------------------------- *)

\* C3: a call that fetches bytes matching no case returns -2 and records it
\* in the error field; a call whose bytes match a case returns a
\* non-negative count and leaves the error field 0.
C3_InvalidOpcode ==
  Executed =>
     IF Matches(PreOp, PreOp1)
     THEN retval >= 0 /\ z80.error = 0
     ELSE retval = Z80E_INVALID_OPCODE /\ z80.error = Z80E_INVALID_OPCODE

\* an unmatched byte was met in a prefix table
C3_Witness ==
  Executed /\ PreOp \in Prefixes /\ ~Matches(PreOp, PreOp1) /\ retval = -2

(* ------------------------------- C4 .. C8 ------------------------------ *)

AddOps == {\h80, \h87, \h86, \hC6}
AdcOps == {\h88, \h8F, \h8E, \hCE}
SubOps == {\h90, \h97, \h96, \hD6}
SbcOps == {\h98, \h9F, \h9E, \hDE}
CpOps == {\hB8, \hBF, \hBE, \hFE}

\* the operand of the ALU instruction the last call executed
AluOperand ==
  IF PreOp >= \hC0 THEN PreOp1
  ELSE IF PreOp % 8 = 6 THEN Peek(pre.mem, PreRegs.h * 256 + PreRegs.l)
  ELSE PreRegs[RegName(PreOp % 8)]

\* the carry-in of the ALU instruction the last call executed
AluCarryIn == IF PreOp \in AdcOps \cup SbcOps THEN PreRegs.f % 2 ELSE 0

\* C4: add a,v and adc a,v leave A = (A+v+c) mod 256, C = carry out of bit
\* 7, H = carry out of bit 3, N = 0 and S, Z, Y, X from the result.
C4_AddAdc ==
  (Executed /\ PreOp \in AddOps \cup AdcOps) =>
     LET A == PreRegs.a
         v == AluOperand
         c == AluCarryIn
         res == (A + v + c) % 256
         F == Regs.f
     IN /\ Regs.a = res
        /\ bit(F, 0) = B2N(A + v + c > 255)
        /\ bit(F, 4) = B2N((A % 16) + (v % 16) + c > 15)
        /\ bit(F, 1) = 0
        /\ bit(F, 7) = bit(res, 7)
        /\ bit(F, 6) = B2N(res = 0)
        /\ bit(F, 5) = bit(res, 5)
        /\ bit(F, 3) = bit(res, 3)

\* adc a,n ran with A + n = 0xFF and the carry set
C4_Witness ==
  /\ Executed /\ PreOp = \hCE /\ PreRegs.a + PreOp1 = 255 /\ PreRegs.f % 2 = 1
  /\ Regs.a = 0 /\ Regs.f % 2 = 1

\* C5: after add, adc, sub, sbc and cp the P/V flag is 1 iff the signed
\* result lies outside -128..127.
C5_SignedOverflow ==
  (Executed /\ PreOp \in AddOps \cup AdcOps \cup SubOps \cup SbcOps \cup CpOps) =>
     LET A == zi8(PreRegs.a)
         v == zi8(AluOperand)
         c == AluCarryIn
         t == IF PreOp \in AddOps \cup AdcOps THEN A + v + c ELSE A - v - c
     IN bit(Regs.f, 2) = B2N(t < -128 \/ t > 127)

\* C6: sub v and sbc a,v leave A = (A-v-c) mod 256, C = 1 iff A < v+c,
\* H = 1 iff (A mod 16) < (v mod 16)+c, and N = 1.
C6_SubSbc ==
  (Executed /\ PreOp \in SubOps \cup SbcOps) =>
     LET A == PreRegs.a
         v == AluOperand
         c == AluCarryIn
         F == Regs.f
     IN /\ Regs.a = (A - v - c) % 256
        /\ bit(F, 0) = B2N(A < v + c)
        /\ bit(F, 4) = B2N((A % 16) < (v % 16) + c)
        /\ bit(F, 1) = 1

IncOps == {\h04, \h3C, \h34}
DecOps == {\h05, \h3D, \h35}

\* the last call executed an 8-bit inc or dec (ix+d)
IndexedIncDec == PreOp = \hDD /\ PreOp1 \in {\h34, \h35}

\* the operand of the 8-bit inc or dec the last call executed
IncDecOperand ==
  IF PreOp \in {\h34, \h35} THEN Peek(pre.mem, PreRegs.h * 256 + PreRegs.l)
  ELSE PreRegs[RegName((PreOp \div 8) % 8)]

\* C7: 8-bit inc and dec leave the carry flag as it was.
C7_IncDecKeepsCarry ==
  (Executed /\ (PreOp \in IncOps \cup DecOps \/ IndexedIncDec)) =>
     bit(Regs.f, 0) = bit(PreRegs.f, 0)

\* C8: after inc P/V = 1 iff the operand was 0x7F, after dec iff it was
\* 0x80; H is the carry or borrow out of bit 3; N = 0 for inc, 1 for dec.
C8_IncDecFlags ==
  (Executed /\ PreOp \in IncOps \cup DecOps) =>
     LET x == IncDecOperand
         F == Regs.f
     IN IF PreOp \in IncOps
        THEN /\ bit(F, 2) = B2N(x = \h7F)
             /\ bit(F, 4) = B2N(x % 16 = 15)
             /\ bit(F, 1) = 0
        ELSE /\ bit(F, 2) = B2N(x = \h80)
             /\ bit(F, 4) = B2N(x % 16 = 0)
             /\ bit(F, 1) = 1

(* ------------------------------ C9 and C10 ----------------------------- *)

\* the bytes at pc are a push / a pop (of bc de hl af, or ix iy by prefix)
IsPush(memory, pc) ==
  \/ Peek(memory, pc) \in {\hC5, \hD5, \hE5, \hF5}
  \/ Peek(memory, pc) \in {\hDD, \hFD} /\ Peek(memory, U16(pc + 1)) = \hE5
IsPop(memory, pc) ==
  \/ Peek(memory, pc) \in {\hC1, \hD1, \hE1, \hF1}
  \/ Peek(memory, pc) \in {\hDD, \hFD} /\ Peek(memory, U16(pc + 1)) = \hE1

\* the register pair a push or pop at pc names, read from the CPU z
StackPair(z, memory, pc) ==
  LET b0 == Peek(memory, pc)
      rs == z[z.cur]
  IN CASE b0 = \hDD -> z.ix
       [] b0 = \hFD -> z.iy
       [] b0 \in {\hC5, \hC1} -> rs.b * 256 + rs.c
       [] b0 \in {\hD5, \hD1} -> rs.d * 256 + rs.e
       [] b0 \in {\hE5, \hE1} -> rs.h * 256 + rs.l
       [] b0 \in {\hF5, \hF1} -> rs.a * 256 + rs.f

\* the instruction-stream reads of a one- or two-byte instruction at pc
Fetches(memory, pc) ==
  IF Peek(memory, pc) \in Prefixes
  THEN <<<<"r", pc>>, <<"r", U16(pc + 1)>>>>
  ELSE <<<<"r", pc>>>>

\* C9: a push followed by a pop hands the pushed value to the pop's
\* register pair and leaves SP where it was before the push.
C9_PushPopRoundTrip ==
  (nsteps = 2 /\ last = "step" /\ IsPush(start.mem, start.z.pc)
     /\ IsPop(pre.mem, pre.z.pc)) =>
     /\ StackPair(z80, pre.mem, pre.z.pc)
          = StackPair(start.z, start.mem, start.z.pc)
     /\ z80.sp = start.z.sp

\* a push and a pop ran with the stack wrapping round address 0
C9_Witness ==
  /\ nsteps = 2 /\ last = "step" /\ IsPush(start.mem, start.z.pc)
  /\ IsPop(pre.mem, pre.z.pc) /\ start.z.sp = 1 /\ z80.sp = 1
  /\ pre.z.sp = \hFFFF

\* C10: a push writes the high byte at SP-1, then the low byte at SP-2, and
\* nothing else, and leaves SP - 2; a pop reads SP, then SP+1, and leaves
\* SP + 2 with the pair made of the two bytes.
C10_PushPopOrder ==
  /\ (Executed /\ IsPush(pre.mem, pre.z.pc)) =>
        LET v == StackPair(pre.z, pre.mem, pre.z.pc)
        IN /\ bus = Fetches(pre.mem, pre.z.pc)
                      \o <<<<"w", U16(pre.z.sp - 1), v \div 256>>,
                           <<"w", U16(pre.z.sp - 2), v % 256>>>>
           /\ z80.sp = U16(pre.z.sp - 2)
  /\ (Executed /\ IsPop(pre.mem, pre.z.pc)) =>
        /\ bus = Fetches(pre.mem, pre.z.pc)
                   \o <<<<"r", pre.z.sp>>, <<"r", U16(pre.z.sp + 1)>>>>
        /\ z80.sp = U16(pre.z.sp + 2)
        /\ StackPair(z80, pre.mem, pre.z.pc)
             = Peek(pre.mem, pre.z.sp)
               + 256 * Peek(pre.mem, U16(pre.z.sp + 1))

\* a push ran with SP = 1, so that its second write wraps to 0xFFFF
C10_Witness ==
  /\ Executed /\ IsPush(pre.mem, pre.z.pc) /\ pre.z.sp = 1
  /\ z80.sp = \hFFFF /\ Len(bus) >= 3

(* ----------------------------- C11 .. C13 ------------------------------ *)

\* the condition nz z nc c po pe p m (k = 0 .. 7) read off a flag byte
FlagCond(k, f) ==
  CASE k = 0 -> bit(f, 6) = 0 [] k = 1 -> bit(f, 6) = 1
    [] k = 2 -> bit(f, 0) = 0 [] k = 3 -> bit(f, 0) = 1
    [] k = 4 -> bit(f, 2) = 0 [] k = 5 -> bit(f, 2) = 1
    [] k = 6 -> bit(f, 7) = 0 [] k = 7 -> bit(f, 7) = 1

\* the condition of the call, ret or jr the last call executed holds
CallTaken == PreOp = \hCD \/ FlagCond((PreOp \div 8) % 8, PreRegs.f)
RetTaken == PreOp = \hC9 \/ FlagCond((PreOp \div 8) % 8, PreRegs.f)
JrTaken == PreOp = \h18 \/ FlagCond(((PreOp \div 8) % 8) - 4, PreRegs.f)

\* the 16-bit operand of the instruction the last call executed
PreWord == PreOp1 + 256 * Peek(pre.mem, U16(pre.z.pc + 2))

\* the three instruction-stream reads of a call at pc
CallFetches(pc) == <<<<"r", pc>>, <<"r", U16(pc + 1)>>, <<"r", U16(pc + 2)>>>>

\* C11: call nn at p writes the high byte of p+3 at SP-1, then the low byte
\* at SP-2, and jumps to nn; a ret executed next leaves PC = p+3 and SP as
\* it was before the call; a conditional call whose condition is false
\* writes nothing, leaves SP alone and leaves PC = p+3.
C11_CallRet ==
  /\ (Executed /\ PreOp = \hCD) =>
        LET back == U16(pre.z.pc + 3)
        IN /\ bus = CallFetches(pre.z.pc)
                      \o <<<<"w", U16(pre.z.sp - 1), back \div 256>>,
                           <<"w", U16(pre.z.sp - 2), back % 256>>>>
           /\ z80.sp = U16(pre.z.sp - 2)
           /\ z80.pc = PreWord
  /\ (nsteps = 2 /\ last = "step" /\ Peek(start.mem, start.z.pc) = \hCD
        /\ pre.z.error = 0 /\ PreOp = \hC9) =>
        /\ z80.pc = U16(start.z.pc + 3)
        /\ z80.sp = start.z.sp
  /\ (Executed /\ PreOp \in CallOps /\ ~CallTaken) =>
        /\ bus = CallFetches(pre.z.pc)
        /\ mem = pre.mem
        /\ z80.sp = pre.z.sp
        /\ z80.pc = U16(pre.z.pc + 3)

\* call 0x0010 at 0 with SP = 0xFFF0 and ret at 0x0010 have both run
C11_Witness ==
  /\ nsteps = 2 /\ last = "step" /\ Peek(start.mem, start.z.pc) = \hCD
  /\ start.z.pc = 0 /\ start.z.sp = \hFFF0 /\ PreOp = \hC9
  /\ pre.z.pc = \h0010 /\ pre.z.sp = \hFFEE
  /\ Peek(mem, \hFFEE) = 3 /\ Peek(mem, \hFFEF) = 0
  /\ z80.pc = 3 /\ z80.sp = \hFFF0

\* C12: a jr at p with displacement byte d whose condition holds leaves
\* PC = (p + 2 + s) mod 65536, s being d as a signed byte, and returns 12;
\* one whose condition fails leaves PC = p + 2 and returns 7.
C12_JrTarget ==
  (Executed /\ PreOp \in JrOps) =>
     LET p == pre.z.pc
         s == IF PreOp1 > 127 THEN PreOp1 - 256 ELSE PreOp1
     IN IF JrTaken
        THEN z80.pc = (p + 2 + s) % 65536 /\ retval = 12
        ELSE z80.pc = (p + 2) % 65536 /\ retval = 7

\* jr z with Z set and d = 0x80 ran at 0x0000: the target wraps to 0xFF82
C12_Witness ==
  /\ Executed /\ PreOp = \h28 /\ PreOp1 = \h80 /\ pre.z.pc = 0
  /\ bit(PreRegs.f, 6) = 1 /\ z80.pc = \hFF82 /\ retval = 12

\* C13: a call returns 17 when taken and 10 when not, a ret cc 11 when
\* taken and 5 when not, and every rst returns 11.
C13_FlowTiming ==
  /\ (Executed /\ PreOp \in CallOps) =>
        retval = (IF CallTaken THEN 17 ELSE 10)
  /\ (Executed /\ PreOp \in RetOps \ {\hC9}) =>
        retval = (IF RetTaken THEN 11 ELSE 5)
  /\ (Executed /\ PreOp \in RstOps) => retval = 11

(* ----------------------------- C14 .. C17 ------------------------------ *)

\* a 16-bit pair of the register bank rs
PairOf(rs, hi, lo) == rs[hi] * 256 + rs[lo]

\* the last call executed the ED-prefixed instruction op2
ExecutedED(op2) == Executed /\ PreOp = \hED /\ PreOp1 = op2

\* +1 for the ops that run upwards, -1 for those that run downwards
Dir(op2) == IF op2 \in DownOps THEN -1 ELSE 1

\* C14: one call on ldir or lddr reads once at HL, writes that byte once at
\* DE, moves HL and DE by one and decrements BC; with BC non-zero afterwards
\* PC is back on the ED prefix and the call returns 21, otherwise PC is
\* past the instruction and the call returns 16.
C14_LdirOneIteration ==
  (ExecutedED(\hB0) \/ ExecutedED(\hB8)) =>
     LET HL == PairOf(PreRegs, "h", "l")
         DE == PairOf(PreRegs, "d", "e")
         BC == PairOf(PreRegs, "b", "c")
     IN /\ bus = Fetches(pre.mem, pre.z.pc)
                   \o <<<<"r", HL>>, <<"w", DE, Peek(pre.mem, HL)>>>>
        /\ PairOf(Regs, "h", "l") = (HL + Dir(PreOp1)) % 65536
        /\ PairOf(Regs, "d", "e") = (DE + Dir(PreOp1)) % 65536
        /\ PairOf(Regs, "b", "c") = (BC - 1) % 65536
        /\ IF (BC - 1) % 65536 # 0
           THEN z80.pc = pre.z.pc /\ retval = 21
           ELSE z80.pc = (pre.z.pc + 2) % 65536 /\ retval = 16

\* lddr ran with BC = 2 and went back to its ED prefix
C14_Witness ==
  /\ ExecutedED(\hB8) /\ PairOf(PreRegs, "b", "c") = 2
  /\ PairOf(Regs, "b", "c") = 1 /\ z80.pc = pre.z.pc /\ retval = 21
  /\ Len(bus) = 4

\* the registers and ranges an ldir at the start of the run is given
StartRegs == start.z[start.z.cur]
StartCount == PairOf(StartRegs, "b", "c")
StartHL == PairOf(StartRegs, "h", "l")
StartDE == PairOf(StartRegs, "d", "e")
StartSrc == {(StartHL + i) % 65536 : i \in 0 .. (StartCount - 1)}
StartDst == {(StartDE + i) % 65536 : i \in 0 .. (StartCount - 1)}
StartCode == {start.z.pc, (start.z.pc + 1) % 65536}

\* the run starts on an ldir with BC >= 1 whose ranges are disjoint from
\* each other and from the instruction
LdirStart ==
  /\ Peek(start.mem, start.z.pc) = \hED
  /\ Peek(start.mem, (start.z.pc + 1) % 65536) = \hB0
  /\ StartCount >= 1
  /\ StartSrc \cap StartDst = {}
  /\ (StartSrc \cup StartDst) \cap StartCode = {}

\* C15: an ldir started with BC = n >= 1 and disjoint ranges keeps PC on
\* the instruction for the first n-1 calls; after exactly n calls PC is past
\* it, the n bytes are copied, BC = 0, HL and DE are advanced by n, P/V = 0.
C15_LdirCompletes ==
  LdirStart =>
     /\ nsteps < StartCount => z80.pc = start.z.pc
     /\ nsteps = StartCount =>
          /\ z80.pc = (start.z.pc + 2) % 65536
          /\ \A i \in 0 .. (StartCount - 1) :
               Peek(mem, (StartDE + i) % 65536)
                 = Peek(start.mem, (StartHL + i) % 65536)
          /\ PairOf(Regs, "b", "c") = 0
          /\ PairOf(Regs, "h", "l") = (StartHL + StartCount) % 65536
          /\ PairOf(Regs, "d", "e") = (StartDE + StartCount) % 65536
          /\ bit(Regs.f, 2) = 0

\* an ldir of three bytes from 0x1000 to 0x2000 has completed
C15_Witness ==
  /\ LdirStart /\ StartCount = 3 /\ nsteps = 3
  /\ StartHL = \h1000 /\ StartDE = \h2000
  /\ Peek(mem, \h2000) = \hAA /\ Peek(mem, \h2001) = \h55
  /\ Peek(mem, \h2002) = \hAA /\ z80.pc = start.z.pc + 2

\* the run starts on cpir or cpdr
SearchStart ==
  /\ Peek(start.mem, start.z.pc) = \hED
  /\ Peek(start.mem, (start.z.pc + 1) % 65536) \in {\hB1, \hB9}

\* the i-th byte the search started with the run looks at equals A
StartMatch(i) ==
  Peek(start.mem,
       (StartHL + i * Dir(Peek(start.mem, (start.z.pc + 1) % 65536))) % 65536)
    = StartRegs.a

\* the i-th byte is the first match and lies within the BC bytes to scan
FirstMatch(i) ==
  /\ StartMatch(i) /\ \A k \in 0 .. (i - 1) : ~StartMatch(k)
  /\ (StartCount = 0 \/ i < StartCount)

\* C16: a call on cpir or cpdr leaves PC on the instruction iff afterwards
\* BC # 0 and Z = 0, Z being set iff the byte at HL equals A; A and C are
\* unchanged and HL moves by one.  A search over a buffer that contains A
\* therefore ends on the first match with Z = 1 and HL one step past it.
C16_SearchRepeat ==
  /\ (ExecutedED(\hB1) \/ ExecutedED(\hB9)) =>
        LET HL == PairOf(PreRegs, "h", "l")
            BC == PairOf(PreRegs, "b", "c")
        IN /\ bit(Regs.f, 6) = B2N(Peek(pre.mem, HL) = PreRegs.a)
           /\ IF (BC - 1) % 65536 # 0 /\ bit(Regs.f, 6) = 0
              THEN z80.pc = pre.z.pc
              ELSE z80.pc = (pre.z.pc + 2) % 65536
           /\ Regs.a = PreRegs.a
           /\ bit(Regs.f, 0) = bit(PreRegs.f, 0)
           /\ PairOf(Regs, "h", "l") = (HL + Dir(PreOp1)) % 65536
  /\ SearchStart =>
        \A j \in 0 .. (BlockSteps - 1) :
           FirstMatch(j) =>
              /\ nsteps <= j => z80.pc = start.z.pc
              /\ nsteps = j + 1 =>
                   /\ z80.pc = (start.z.pc + 2) % 65536
                   /\ bit(Regs.f, 6) = 1
                   /\ Regs.a = StartRegs.a
                   /\ bit(Regs.f, 0) = bit(StartRegs.f, 0)
                   /\ PairOf(Regs, "h", "l")
                        = (StartHL + (j + 1) * Dir(PreOp1)) % 65536

\* a cpdr found A in the third byte it looked at
C16_Witness ==
  /\ SearchStart /\ FirstMatch(2) /\ nsteps = 3 /\ ExecutedED(\hB9)
  /\ StartCount = 3 /\ bit(Regs.f, 6) = 1
  /\ z80.pc = (start.z.pc + 2) % 65536
  /\ PairOf(Regs, "h", "l") = (StartHL - 3) % 65536

\* C17: after cpi or cpd, with tmp = (A - mem[HL]) mod 256 and H the
\* half-borrow flag as 0 or 1, Y is bit 1 and X is bit 3 of (tmp - H) mod 256.
C17_CpiYX ==
  (ExecutedED(\hA1) \/ ExecutedED(\hA9)) =>
     LET tmp == (PreRegs.a - Peek(pre.mem, PairOf(PreRegs, "h", "l"))) % 256
         H == bit(Regs.f, 4)
         t == (tmp - H) % 256
     IN /\ bit(Regs.f, 5) = bit(t, 1)
        /\ bit(Regs.f, 3) = bit(t, 3)

(* ----------------------------- C18 .. C20 ------------------------------ *)

\* the registers other than A and F
PairRegs == {"b", "c", "d", "e", "h", "l"}

\* the bank reg() does not select in the struct z
OtherBank(z) == IF z.cur = "main" THEN "alt" ELSE "main"

\* the first instruction of the run was op and the last call executed op2
RanTwo(op, op2) ==
  /\ nsteps = 2 /\ Executed /\ PreOp = op2
  /\ Peek(start.mem, start.z.pc) = op
  /\ pre.z.pc = (start.z.pc + 1) % 65536

\* C18: after ex af,af' the main bank's A and F hold what the alternate
\* bank's A and F held before and the other way round; no other register
\* changes.
C18_ExAfSwaps ==
  (Executed /\ PreOp = \h08) =>
     /\ z80.main.a = pre.z.alt.a /\ z80.main.f = pre.z.alt.f
     /\ z80.alt.a = pre.z.main.a /\ z80.alt.f = pre.z.main.f
     /\ \A r \in PairRegs :
          z80.main[r] = pre.z.main[r] /\ z80.alt[r] = pre.z.alt[r]
     /\ z80.cur = pre.z.cur /\ z80.sp = pre.z.sp
     /\ z80.ix = pre.z.ix /\ z80.iy = pre.z.iy
     /\ z80.i = pre.z.i /\ z80.r = pre.z.r

\* C19: ex af,af' executed twice in succession leaves A, F, A' and F' as
\* they were before the first of the two.
C19_ExAfTwice ==
  RanTwo(\h08, \h08) =>
     /\ z80.main.a = start.z.main.a /\ z80.main.f = start.z.main.f
     /\ z80.alt.a = start.z.alt.a /\ z80.alt.f = start.z.alt.f

\* C20: exx exchanges B, C, D, E, H, L with the other bank and leaves the A
\* and F that instructions read and write as they were, so that a push af
\* after exx stores the A and F from before the exx; exx executed twice
\* restores every register.
C20_ExxFrame ==
  /\ (Executed /\ PreOp = \hD9) =>
        /\ Regs.a = PreRegs.a /\ Regs.f = PreRegs.f
        /\ \A r \in PairRegs :
             /\ Regs[r] = pre.z[OtherBank(pre.z)][r]
             /\ z80[OtherBank(z80)][r] = PreRegs[r]
  /\ RanTwo(\hD9, \hF5) =>
        bus = <<<<"r", pre.z.pc>>,
                <<"w", (pre.z.sp - 1) % 65536, StartRegs.a>>,
                <<"w", (pre.z.sp - 2) % 65536, StartRegs.f>>>>
  /\ RanTwo(\hD9, \hC6) =>
        Regs.a = (StartRegs.a + 1) % 256
  /\ RanTwo(\hD9, \hD9) =>
        /\ \A r \in PairRegs \cup {"a", "f"} :
             /\ Regs[r] = StartRegs[r]
             /\ z80[OtherBank(z80)][r] = start.z[OtherBank(start.z)][r]
        /\ z80.sp = start.z.sp /\ z80.ix = start.z.ix /\ z80.iy = start.z.iy

(* --------------------------------- C21 --------------------------------- *)

\* the pair rr an add/adc/sbc hl,rr with opcode op names, before the call
WideOperand(op) ==
  CASE (op \div 16) % 4 = 0 -> PairOf(PreRegs, "b", "c")
    [] (op \div 16) % 4 = 1 -> PairOf(PreRegs, "d", "e")
    [] (op \div 16) % 4 = 2 -> PairOf(PreRegs, "h", "l")
    [] OTHER -> pre.z.sp

\* C21: add hl,rr sets HL = (HL + opd) mod 65536, C = carry out of bit 15,
\* H = carry out of bit 11, N = 0, Y/X = bits 13/11 of the result and leaves
\* S, Z and P/V unchanged.
C21_AddHl ==
  (Executed /\ PreOp \in AddHlOps) =>
     LET HL == PairOf(PreRegs, "h", "l")
         opd == WideOperand(PreOp)
         res == (HL + opd) % 65536
     IN /\ retval = 11
        /\ PairOf(Regs, "h", "l") = res
        /\ bit(Regs.f, 0) = B2N(HL + opd > 65535)
        /\ bit(Regs.f, 4) = B2N((HL % 4096) + (opd % 4096) > 4095)
        /\ bit(Regs.f, 1) = 0
        /\ bit(Regs.f, 5) = bit(res, 13)
        /\ bit(Regs.f, 3) = bit(res, 11)
        /\ bit(Regs.f, 7) = bit(PreRegs.f, 7)
        /\ bit(Regs.f, 6) = bit(PreRegs.f, 6)
        /\ bit(Regs.f, 2) = bit(PreRegs.f, 2)

(* --------------------------------- C28 --------------------------------- *)

\* a 16-bit value read as a two's-complement number
Signed16(x) == IF x >= 32768 THEN x - 65536 ELSE x

\* C28: ED 4A/5A/6A/7A (adc hl,rr) and ED 42/52/62/72 (sbc hl,rr) execute
\* successfully, HL becomes (HL + rr + C) mod 65536 respectively
\* (HL - rr - C) mod 65536, and S, Z, H, P/V (signed overflow), N and C are
\* those of the 16-bit result.
C28_AdcSbcHl ==
  (Executed /\ PreOp = \hED /\ PreOp1 \in AdcHlOps \cup SbcHlOps) =>
     LET HL == PairOf(PreRegs, "h", "l")
         opd == WideOperand(PreOp1)
         cin == bit(PreRegs.f, 0)
         sub == PreOp1 \in SbcHlOps
         wide == IF sub THEN HL - opd - cin ELSE HL + opd + cin
         exact == IF sub THEN Signed16(HL) - Signed16(opd) - cin
                  ELSE Signed16(HL) + Signed16(opd) + cin
         half == IF sub THEN (HL % 4096) - (opd % 4096) - cin
                 ELSE (HL % 4096) + (opd % 4096) + cin
         res == wide % 65536
     IN /\ retval >= 0 /\ z80.error = Z80E_OK
        /\ z80.pc = (pre.z.pc + 2) % 65536
        /\ PairOf(Regs, "h", "l") = res
        /\ bit(Regs.f, 7) = bit(res, 15)
        /\ bit(Regs.f, 6) = B2N(res = 0)
        /\ bit(Regs.f, 4) = B2N(half < 0 \/ half > 4095)
        /\ bit(Regs.f, 2) = B2N(exact < -32768 \/ exact > 32767)
        /\ bit(Regs.f, 1) = B2N(sub)
        /\ bit(Regs.f, 0) = B2N(wide < 0 \/ wide > 65535)

(* ----------------------------- C22 and C23 ----------------------------- *)

\* the last call executed the CB-prefixed instruction with a second byte in ops
ExecutedCB(ops) == Executed /\ PreOp = \hCB /\ PreOp1 \in ops

\* the operand of the CB-prefixed instruction before and after the last call
CBBefore ==
  IF PreOp1 % 8 = 6 THEN Peek(pre.mem, PairOf(PreRegs, "h", "l"))
  ELSE PreRegs[RegName(PreOp1 % 8)]
CBAfter ==
  IF PreOp1 % 8 = 6 THEN Peek(mem, PairOf(PreRegs, "h", "l"))
  ELSE Regs[RegName(PreOp1 % 8)]

\* 1 iff x has an even number of 1 bits
EvenParity(x) ==
  B2N((bit(x, 0) + bit(x, 1) + bit(x, 2) + bit(x, 3)
       + bit(x, 4) + bit(x, 5) + bit(x, 6) + bit(x, 7)) % 2 = 0)

\* the value and the carry a rotate or shift of kind k gives for the
\* operand r and the carry c: rlc rrc rl rr sla sra sll srl
Shifted(k, r, c) ==
  CASE k = 0 -> [v |-> ((2 * r) % 256) + (r \div 128), c |-> r \div 128]
    [] k = 1 -> [v |-> (r \div 2) + 128 * (r % 2), c |-> r % 2]
    [] k = 2 -> [v |-> ((2 * r) % 256) + c, c |-> r \div 128]
    [] k = 3 -> [v |-> (r \div 2) + 128 * c, c |-> r % 2]
    [] k = 4 -> [v |-> (2 * r) % 256, c |-> r \div 128]
    [] k = 5 -> [v |-> (r \div 2) + 128 * (r \div 128), c |-> r % 2]
    [] k = 6 -> [v |-> ((2 * r) % 256) + 1, c |-> r \div 128]
    [] k = 7 -> [v |-> r \div 2, c |-> r % 2]

\* the flags a rotate or shift leaves for the result v and the carry c
ShiftFlags(v, c) ==
  128 * bit(v, 7) + 64 * B2N(v = 0) + 32 * bit(v, 5) + 8 * bit(v, 3)
    + 4 * EvenParity(v) + c

\* C22: CB-prefixed rlc, rl, rrc, rr, sla, sra and srl on B, C, D, E, H, L,
\* A or (HL) give the operand and C their defined values (rl and rr shift in
\* the carry from before the instruction), then S/Z/Y/X come from the
\* result, H = 0, N = 0, P/V = even parity; the (HL) form writes the result
\* back to memory at HL.
C22_RotateShift ==
  ExecutedCB((\h00 .. \h2F) \cup (\h38 .. \h3F)) =>
     LET o == Shifted(PreOp1 \div 8, CBBefore, bit(PreRegs.f, 0))
     IN /\ CBAfter = o.v
        /\ Regs.f = ShiftFlags(o.v, o.c)
        /\ PreOp1 % 8 = 6 =>
             bus[Len(bus)] = <<"w", PairOf(PreRegs, "h", "l"), o.v>>
        /\ retval >= 0 /\ z80.error = Z80E_OK

\* rr (hl) shifted the carry into bit 7 and bit 0 out into the carry
C22_Witness ==
  /\ ExecutedCB({\h1E}) /\ CBBefore = \h81 /\ bit(PreRegs.f, 0) = 1
  /\ Peek(mem, DataAddr) = \hC0 /\ Regs.f = \h85

\* C23: sll (CB 30..37) executes successfully on each operand, setting it
\* to ((r << 1) | 1) mod 256 and C to the old bit 7 of r.
C23_Sll ==
  ExecutedCB(\h30 .. \h37) =>
     /\ retval >= 0 /\ z80.error = Z80E_OK
     /\ CBAfter = Shifted(6, CBBefore, 0).v
     /\ bit(Regs.f, 0) = Shifted(6, CBBefore, 0).c

(* --------------------------------- C25 --------------------------------- *)

\* C25: bit n,r sets Z = 1 iff bit n of r is 0, P/V = Z, S = 1 iff n = 7
\* and bit 7 of r is 1, H = 1, N = 0, Y = bit 5 of r, X = bit 3 of r, and
\* leaves C and r unchanged.
C25_BitTest ==
  (ExecutedCB(\h40 .. \h7F) /\ PreOp1 % 8 # 6) =>
     LET n == (PreOp1 \div 8) % 8
         r == CBBefore
     IN /\ bit(Regs.f, 6) = 1 - bit(r, n)
        /\ bit(Regs.f, 2) = bit(Regs.f, 6)
        /\ bit(Regs.f, 7) = B2N(n = 7 /\ bit(r, 7) = 1)
        /\ bit(Regs.f, 4) = 1
        /\ bit(Regs.f, 1) = 0
        /\ bit(Regs.f, 5) = bit(r, 5)
        /\ bit(Regs.f, 3) = bit(r, 3)
        /\ bit(Regs.f, 0) = bit(PreRegs.f, 0)
        /\ CBAfter = r

(* --------------------------------- C24 --------------------------------- *)

\* C24: rla sets A = ((A << 1) | C_old) mod 256 and C = old bit 7; rra sets
\* A = (A >> 1) | (C_old << 7) and C = old bit 0; both set H = 0, N = 0,
\* Y/X from the new A and leave S, Z, P/V unchanged.
C24_RlaRra ==
  (Executed /\ PreOp \in {\h17, \h1F}) =>
     LET o == Shifted(IF PreOp = \h17 THEN 2 ELSE 3, PreRegs.a,
                      bit(PreRegs.f, 0))
     IN /\ Regs.a = o.v
        /\ bit(Regs.f, 0) = o.c
        /\ bit(Regs.f, 4) = 0 /\ bit(Regs.f, 1) = 0
        /\ bit(Regs.f, 5) = bit(o.v, 5) /\ bit(Regs.f, 3) = bit(o.v, 3)
        /\ BitAnd(Regs.f, \hC4) = BitAnd(PreRegs.f, \hC4)

(* --------------------------------- C27 --------------------------------- *)

\* C27: ccf sets H to the old C, inverts C, sets N = 0 and Y/X to bits 5/3
\* of A; scf sets C = 1, H = 0, N = 0 and Y/X to bits 5/3 of A; both leave
\* S, Z, P/V and A unchanged.
C27_CcfScf ==
  (Executed /\ PreOp \in CarryOps) =>
     /\ IF PreOp = \h3F
        THEN /\ bit(Regs.f, 4) = bit(PreRegs.f, 0)
             /\ bit(Regs.f, 0) = 1 - bit(PreRegs.f, 0)
        ELSE /\ bit(Regs.f, 4) = 0
             /\ bit(Regs.f, 0) = 1
     /\ bit(Regs.f, 1) = 0
     /\ bit(Regs.f, 5) = bit(Regs.a, 5) /\ bit(Regs.f, 3) = bit(Regs.a, 3)
     /\ BitAnd(Regs.f, \hC4) = BitAnd(PreRegs.f, \hC4)
     /\ Regs.a = PreRegs.a

(* --------------------------------- C30 --------------------------------- *)

\* the operand of the 8-bit ALU row the last call executed
LogicOperand ==
  IF PreOp \in {\hE6, \hEE, \hF6} THEN PreOp1
  ELSE IF PreOp % 8 = 6 THEN Peek(pre.mem, PairOf(PreRegs, "h", "l"))
  ELSE PreRegs[RegName(PreOp % 8)]

\* bit i of the AND, XOR or OR of two bits
LogicBit(op, x, y) ==
  IF op \in AndOps THEN x * y
  ELSE IF op \in XorOps THEN (x + y) % 2
  ELSE x + y - x * y

\* the byte whose bits are the AND, XOR or OR of the bits of a and v
LogicByte(op, a, v) ==
  LogicBit(op, bit(a, 0), bit(v, 0)) + 2 * LogicBit(op, bit(a, 1), bit(v, 1))
    + 4 * LogicBit(op, bit(a, 2), bit(v, 2))
    + 8 * LogicBit(op, bit(a, 3), bit(v, 3))
    + 16 * LogicBit(op, bit(a, 4), bit(v, 4))
    + 32 * LogicBit(op, bit(a, 5), bit(v, 5))
    + 64 * LogicBit(op, bit(a, 6), bit(v, 6))
    + 128 * LogicBit(op, bit(a, 7), bit(v, 7))

\* C30: and/or/xor set A to the bitwise AND/OR/XOR of A and v, S = bit 7 of
\* the result, Z = 1 iff it is 0, P/V = 1 iff it has an even number of 1
\* bits, N = 0, C = 0, H = 1 for and and H = 0 for or and xor.
C30_Logic ==
  (Executed /\ PreOp \in AndOps \cup XorOps \cup OrOps) =>
     LET res == LogicByte(PreOp, PreRegs.a, LogicOperand)
     IN /\ Regs.a = res
        /\ bit(Regs.f, 7) = bit(res, 7)
        /\ bit(Regs.f, 6) = B2N(res = 0)
        /\ bit(Regs.f, 2) = EvenParity(res)
        /\ bit(Regs.f, 1) = 0
        /\ bit(Regs.f, 0) = 0
        /\ bit(Regs.f, 4) = B2N(PreOp \in AndOps)

\* and (hl) of 0xAA with 0x0F gave 0x0A, which is neither 0 nor 1
C30_Witness ==
  /\ Executed /\ PreOp = \hA6 /\ PreRegs.a = \hAA /\ LogicOperand = \h0F
  /\ Regs.a = \h0A /\ Regs.f = \h1C

(* --------------------------------- C26 --------------------------------- *)

\* the number a packed-BCD byte stands for, and the byte for a number
BcdValue(x) == 10 * (x \div 16) + (x % 16)
BcdByte(n) == 16 * ((n % 100) \div 10) + (n % 10)

\* the run was an add, adc, sub or sbc of two packed-BCD bytes and then daa
BcdRun ==
  /\ nsteps = 2 /\ Executed /\ PreOp = DaaOp
  /\ Peek(start.mem, start.z.pc) \in BcdOps
  /\ pre.z.pc = (start.z.pc + 2) % 65536
  /\ StartRegs.a \in BcdBytes
  /\ Peek(start.mem, (start.z.pc + 1) % 65536) \in BcdBytes

\* C26: for packed-BCD bytes a and b, add/adc then daa leaves A = BCD of
\* (a+b+c) mod 100, C = 1 iff a+b+c >= 100 and N = 0; sub/sbc then daa
\* leaves A = BCD of the difference modulo 100 and C = 1 iff a borrow
\* occurred.
C26_DaaBcd ==
  BcdRun =>
     LET op == Peek(start.mem, start.z.pc)
         a == BcdValue(StartRegs.a)
         b == BcdValue(Peek(start.mem, (start.z.pc + 1) % 65536))
         cin == IF op \in {\hCE, \hDE} THEN bit(StartRegs.f, 0) ELSE 0
     IN IF op \in {\hC6, \hCE}
        THEN /\ Regs.a = BcdByte(a + b + cin)
             /\ bit(Regs.f, 0) = B2N(a + b + cin >= 100)
             /\ bit(Regs.f, 1) = 0
        ELSE /\ Regs.a = BcdByte((a - b - cin) % 100)
             /\ bit(Regs.f, 0) = B2N(a - b - cin < 0)

\* 0x15 + 0x27 followed by daa gave 0x42 without carry
C26_Witness ==
  /\ BcdRun /\ Peek(start.mem, start.z.pc) = \hC6
  /\ StartRegs.a = \h15 /\ Peek(start.mem, (start.z.pc + 1) % 65536) = \h27
  /\ Regs.a = \h42 /\ bit(Regs.f, 0) = 0 /\ bit(Regs.f, 1) = 0

(* --------------------------------- C29 --------------------------------- *)

\* the address (iz + d) of the DD- or FD-prefixed instruction at the pc the
\* last call was entered with
IndexedAddr ==
  ((IF PreOp = \hDD THEN pre.z.ix ELSE pre.z.iy)
     + zi8(Peek(pre.mem, (pre.z.pc + 2) % 65536))) % 65536

\* C29: under a DD or FD prefix, opcodes 0x34 and 0x35 fetch the signed
\* displacement d after the opcode, read the byte at (IX + d) mod 65536
\* (resp. IY) and write that byte plus or minus 1 (mod 256) back to the
\* same address, as inc (hl) and dec (hl) do at HL.
C29_IndexedIncDec ==
  /\ (Executed /\ PreOp \in {\hDD, \hFD} /\ PreOp1 \in {\h34, \h35}) =>
        LET x == Peek(pre.mem, IndexedAddr)
            y == (IF PreOp1 = \h34 THEN x + 1 ELSE x - 1) % 256
        IN /\ retval >= 0 /\ z80.error = Z80E_OK
           /\ bus = Fetches(pre.mem, pre.z.pc)
                      \o <<<<"r", (pre.z.pc + 2) % 65536>>,
                           <<"r", IndexedAddr>>, <<"w", IndexedAddr, y>>>>
           /\ Peek(mem, IndexedAddr) = y
           /\ z80.pc = (pre.z.pc + 3) % 65536
  /\ (Executed /\ PreOp \in {\h34, \h35}) =>
        LET HL == PairOf(PreRegs, "h", "l")
            x == Peek(pre.mem, HL)
            y == (IF PreOp = \h34 THEN x + 1 ELSE x - 1) % 256
        IN /\ bus = Fetches(pre.mem, pre.z.pc)
                      \o <<<<"r", HL>>, <<"w", HL, y>>>>
           /\ Peek(mem, HL) = y

(* --------------------------------- C31 --------------------------------- *)

\* C31: nop (0x00) moves PC to (PC + 1) mod 65536 and changes nothing else:
\* both banks, the bank selector, SP, IX, IY, I, R, IFF, the interrupt mode,
\* halt and error are as before, and the call issues no memory write.
C31_NopFrame ==
  (Executed /\ PreOp = \h00) =>
     /\ z80.pc = (pre.z.pc + 1) % 65536
     /\ z80.main = pre.z.main /\ z80.alt = pre.z.alt /\ z80.cur = pre.z.cur
     /\ z80.sp = pre.z.sp /\ z80.ix = pre.z.ix /\ z80.iy = pre.z.iy
     /\ z80.i = pre.z.i /\ z80.r = pre.z.r /\ z80.iff = pre.z.iff
     /\ z80.int_mode = pre.z.int_mode
     /\ z80.halt = pre.z.halt /\ z80.error = pre.z.error
     /\ mem = pre.mem
     /\ \A k \in 1 .. Len(bus) : bus[k][1] # "w"

\* a nop ran with every register pair holding something other than zero
C31_Witness ==
  /\ Executed /\ PreOp = \h00
  /\ pre.z.main.a = \h5A /\ pre.z.alt.a = \hA5 /\ pre.z.sp = \h8000
  /\ z80.pc = pre.z.pc + 1 /\ z80.main.f = \hD7

(* --------------------------------- C33 --------------------------------- *)

\* the state z80e_init leaves: everything zero, main bank selected
Fresh(z) ==
  /\ \A n \in {"a", "b", "c", "d", "e", "h", "l", "f"} :
        z.main[n] = 0 /\ z.alt[n] = 0
  /\ z.cur = "main"
  /\ z.sp = 0 /\ z.pc = 0 /\ z.ix = 0 /\ z.iy = 0 /\ z.i = 0 /\ z.r = 0
  /\ z.iff = 0 /\ z.int_mode = 0 /\ z.halt = 0 /\ z.error = 0

\* C33: a re-initialisation after any sequence of steps leaves the freshly
\* constructed state (all registers, F, SP, PC, IX, IY, I, R, IFF, interrupt
\* mode, halt and the sticky error zero, main bank selected), and the step
\* after it fetches from address 0 and executes, whether or not the
\* processor was halted or in error before.
C33_ReinitIsFresh ==
  [][/\ (last' = "init") => Fresh(z80')
     /\ (last = "init" /\ nsteps > 0 /\ last' = "step") =>
           /\ Len(bus') >= 1 /\ bus'[1] = <<"r", 0>>
           /\ (Peek(mem, 0) = \h00 => z80'.pc = 1 /\ retval' = 4)]_vars

\* a re-initialisation came after a call that recorded an error with the
\* registers loaded, and cleared all of it
C33_Witness ==
  /\ last = "init" /\ nsteps = 2
  /\ pre.z.error # 0 /\ pre.z.main.a = \h5A /\ pre.z.sp = \h8000
  /\ pre.z.pc # 0
  /\ Fresh(z80)

(* --------------------------------- C38 --------------------------------- *)

\* C38: a call that returns Z80E_INVALID_OPCODE issues no memory write and
\* changes nothing but PC, which is past the one byte (no prefix) or the two
\* bytes (prefix and opcode) it fetched, and the error field.
C38_InvalidFrame ==
  (Executed /\ retval = Z80E_INVALID_OPCODE) =>
     /\ bus = Fetches(pre.mem, pre.z.pc)
     /\ mem = pre.mem
     /\ z80 = [pre.z EXCEPT !.pc = (pre.z.pc + Len(bus)) % 65536,
                            !.error = Z80E_INVALID_OPCODE]

\* ED 00, which no case of z80e_execute_ed lists, was refused with every
\* register loaded
C38_Witness ==
  /\ Executed /\ retval = Z80E_INVALID_OPCODE
  /\ PreOp = \hED /\ PreOp1 = \h00
  /\ pre.z.main.a = \h5A /\ z80.main.a = \h5A /\ z80.sp = \h8000
  /\ z80.pc = pre.z.pc + 2 /\ z80.error = Z80E_INVALID_OPCODE

(* ------------------------------ C34, C35 ------------------------------- *)

\* the machine the last call was entered with
PreM == [z |-> pre.z, mem |-> pre.mem, bus |-> <<>>]

\* rows of z80e_execute whose operand is one read_byte and one read_word
RootByteOps ==
  {\h06, \h0E, \h16, \h1E, \h26, \h2E, \h3E, \h36,
   \hC6, \hCE, \hD6, \hDE, \hE6, \hEE, \hF6, \hFE}
JpOps == {\hC2 + 8 * k : k \in 0 .. 7} \cup {\hC3}
RelOps == JrOps \cup {DjnzOp}
RootWordOps == {\h01, \h11, \h21, \h31, \h2A, \h3A, \h32} \cup JpOps \cup CallOps

\* rows of z80e_execute_ed and z80e_execute_ddfd that call read_word, and
\* rows of z80e_execute_ddfd that read the displacement d
EDWordOps == {\h4B, \h5B, \h6B, \h7B, \h43, \h53, \h63, \h73}
IndexWordOps == {\h21, \h22, \h2A}
IndexByteOps ==
  {\h7E, \h46, \h4E, \h56, \h5E, \h66, \h6E,
   \h70, \h71, \h72, \h73, \h74, \h75, \h77,
   \h86, \h8E, \h96, \h9E, \hA6, \hB6, \hAE, \hBE, \h32, \h35}

\* the argument cond of jr for the relative jump at the pc of the last call
JrCond ==
  CASE PreOp = \h18 -> TRUE
    [] PreOp = \h20 -> bit(PreRegs.f, 6) = 0
    [] PreOp = \h28 -> bit(PreRegs.f, 6) = 1
    [] PreOp = \h30 -> bit(PreRegs.f, 0) = 0
    [] PreOp = \h38 -> bit(PreRegs.f, 0) = 1
    [] PreOp = \h10 -> PreRegs.b # 1
    [] OTHER -> FALSE

\* the last call executed an instruction that transferred control: a taken
\* jp, jr, djnz, call, ret or rst, jp (hl), or a block instruction that
\* moved PC back onto itself
Transferred ==
  \/ PreOp \in {\hC3, \hCD, \hC9, \hE9} \cup RstOps
  \/ /\ PreOp \in (JpOps \cup CallOps \cup RetOps) \ {\hC3, \hCD, \hC9}
     /\ Cond(PreM, (PreOp \div 8) % 8) # 0
  \/ PreOp \in RelOps /\ JrCond
  \/ /\ PreOp = \hED /\ PreOp1 \in {\hB0, \hB8}
     /\ PairOf(PreRegs, "b", "c") # 1
  \/ /\ PreOp = \hED /\ PreOp1 \in {\hB1, \hB9}
     /\ PairOf(PreRegs, "b", "c") # 1
     /\ PreRegs.a # Peek(pre.mem, PairOf(PreRegs, "h", "l"))

\* the number of bytes the last call read through read_byte and read_word:
\* the opcode, a prefixed opcode and the operands of the row
StreamReads ==
  Len(Fetches(pre.mem, pre.z.pc))
  + (CASE PreOp = \hED -> IF PreOp1 \in EDWordOps THEN 2 ELSE 0
       [] PreOp \in {\hDD, \hFD} ->
            (CASE PreOp1 \in IndexByteOps -> 1
               [] PreOp1 \in IndexWordOps \cup {\h36} -> 2
               [] OTHER -> 0)
       [] PreOp \in RootByteOps -> 1
       [] PreOp \in RootWordOps -> 2
       [] PreOp \in RelOps -> IF JrCond THEN 1 ELSE 0
       [] OTHER -> 0)

\* the first n accesses of the last call are reads at pc, pc + 1, ...
IsStream(n) ==
  /\ Len(bus) >= n
  /\ \A k \in 1 .. n : bus[k] = <<"r", (pre.z.pc + k - 1) % 65536>>

\* C34: after a call that executes an instruction without transferring
\* control, PC is the PC before plus the number of instruction-stream bytes
\* the call read, each of them read at the PC of that moment, so that PC
\* never moves over a byte that was not fetched; a fetched word has its low
\* byte from the first address and its high byte from the second.
C34_PcFollowsFetches ==
  /\ (Executed /\ ~Transferred) =>
        /\ IsStream(StreamReads)
        /\ z80.pc = (pre.z.pc + StreamReads) % 65536
  /\ (Executed /\ PreOp = \h01) => PairOf(Regs, "b", "c") = PreWord
  /\ (Executed /\ PreOp = \h11) => PairOf(Regs, "d", "e") = PreWord
  /\ (Executed /\ PreOp = \h21) => PairOf(Regs, "h", "l") = PreWord
  /\ (Executed /\ PreOp = \h31) => z80.sp = PreWord
  /\ (Executed /\ PreOp = \hC3) => z80.pc = PreWord

\* C35: within one call the opcode fetch at PC is the first access, the
\* fetches of a prefixed opcode and of the operands come next, before every
\* data read, and every data read comes before every write: no call issues
\* a write before it has finished reading.
C35_FetchReadWrite ==
  Executed =>
     /\ Len(bus) >= 1 /\ bus[1] = <<"r", pre.z.pc>>
     /\ IsStream(StreamReads)
     /\ \A i, j \in (StreamReads + 1) .. Len(bus) :
           (i < j /\ bus[i][1] = "w") => bus[j][1] = "w"

\* DD E3, ex (sp),ix: two fetches, two reads at SP and SP + 1, two writes
C35_Witness ==
  /\ Executed /\ PreOp = \hDD /\ PreOp1 = \hE3 /\ pre.z.sp = \h8000
  /\ Len(bus) = 6
  /\ bus[2] = <<"r", (pre.z.pc + 1) % 65536>>
  /\ {bus[3], bus[4]} = {<<"r", \h8000>>, <<"r", \h8001>>}
  /\ bus[5][1] = "w" /\ bus[6][1] = "w"

(* --------------------------------- C40 --------------------------------- *)

\* the rows ld r,(hl) of z80e_execute, r = b c d e h l a
LdRegHlOps == {\h46, \h4E, \h56, \h5E, \h66, \h6E, \h7E}

\* C40: a call that executes ld r,(hl) returns 7 T-states for every
\* destination register r of A, B, C, D, E, H, L.
C40_LdRegHlCycles ==
  (Executed /\ PreOp \in LdRegHlOps) =>
     /\ retval = 7
     /\ bus = <<<<"r", pre.z.pc>>, <<"r", PairOf(PreRegs, "h", "l")>>>>
     /\ Regs[RegName((PreOp \div 8) % 8)]
          = Peek(pre.mem, PairOf(PreRegs, "h", "l"))

(* --------------------------------- C32 --------------------------------- *)

\* the run was eight calls on a program of eight rlca
RanEightRlca ==
  /\ nsteps = 8 /\ last = "step" /\ z80.error = 0
  /\ \A i \in 0 .. 7 : Peek(start.mem, (start.z.pc + i) % 65536) = RlcaOp
  /\ z80.pc = (start.z.pc + 8) % 65536

\* C32: eight rlca in a row leave A at its initial value; each rlca sets C
\* to the bit it rotates out of bit 7 of A and leaves S, Z and P/V as they
\* were.
C32_RlcaEightTimes ==
  /\ RanEightRlca => Regs.a = StartRegs.a
  /\ (Executed /\ PreOp = RlcaOp) =>
        /\ bit(Regs.f, 0) = bit(PreRegs.a, 7)
        /\ bit(Regs.f, 7) = bit(PreRegs.f, 7)
        /\ bit(Regs.f, 6) = bit(PreRegs.f, 6)
        /\ bit(Regs.f, 2) = bit(PreRegs.f, 2)

\* eight rlca brought 0x81 back to 0x81 through 0xC0, with C set by the last
C32_Witness ==
  /\ RanEightRlca /\ StartRegs.a = \h81 /\ StartRegs.f = \h00
  /\ PreRegs.a = \hC0 /\ Regs.a = \h81 /\ bit(Regs.f, 0) = 1

(* --------------------------------- C36 --------------------------------- *)

\* C36: ld (nn),hl (0x22) fetches nn from the two bytes after the opcode,
\* stores L at nn and H at nn + 1 and leaves its operand bytes as they were;
\* ld (nn),hl followed by ld hl,(nn) with the same nn leaves HL at its value.
C36_StoreHl ==
  /\ (Executed /\ PreOp = StoreHlOp) =>
        /\ bus = CallFetches(pre.z.pc)
                   \o <<<<"w", PreWord, PreRegs.l>>,
                        <<"w", (PreWord + 1) % 65536, PreRegs.h>>>>
        /\ Peek(mem, PreWord) = PreRegs.l
        /\ Peek(mem, (PreWord + 1) % 65536) = PreRegs.h
        /\ Peek(mem, (pre.z.pc + 1) % 65536) = PreOp1
        /\ Peek(mem, (pre.z.pc + 2) % 65536)
             = Peek(pre.mem, (pre.z.pc + 2) % 65536)
        /\ z80.pc = (pre.z.pc + 3) % 65536
  /\ (/\ nsteps = 2 /\ Executed /\ PreOp = LoadHlOp
      /\ Peek(start.mem, start.z.pc) = StoreHlOp
      /\ pre.z.pc = (start.z.pc + 3) % 65536) =>
        PairOf(Regs, "h", "l") = StartHL

(* --------------------------------- C37 --------------------------------- *)

\* the register pair that bits 5..4 of op name, after the last call
PairAfter(op) ==
  CASE (op \div 16) % 4 = 0 -> PairOf(Regs, "b", "c")
    [] (op \div 16) % 4 = 1 -> PairOf(Regs, "d", "e")
    [] (op \div 16) % 4 = 2 -> PairOf(Regs, "h", "l")
    [] OTHER -> z80.sp

\* S, Z, H, P/V, N and C are as they were before the last call
DocumentedFlagsKept ==
  \A i \in {7, 6, 4, 2, 1, 0} : bit(Regs.f, i) = bit(PreRegs.f, i)

\* C37: for rr = BC, DE, HL, SP, inc rr leaves rr + 1 and dec rr leaves
\* rr - 1 (mod 65536), inc rr followed by dec rr (and the reverse) restores
\* rr, and neither touches S, Z, H, P/V, N or C.
C37_IncDecPair ==
  /\ (Executed /\ PreOp \in IncPairOps) =>
        /\ PairAfter(PreOp) = (WideOperand(PreOp) + 1) % 65536
        /\ DocumentedFlagsKept
  /\ (Executed /\ PreOp \in DecPairOps) =>
        /\ PairAfter(PreOp) = (WideOperand(PreOp) - 1) % 65536
        /\ DocumentedFlagsKept
  /\ \A op \in IncPairOps :
        (RanTwo(op, op + 8) \/ RanTwo(op + 8, op)) =>
           PairAfter(op) = (IF op = \h33 THEN start.z.sp
                            ELSE IF op = \h03 THEN StartCount
                            ELSE IF op = \h13 THEN StartDE ELSE StartHL)

(* --------------------------------- C39 --------------------------------- *)

\* C39: in every state a Z80 object can reach, also after an odd number of
\* exx, set_register(name, v) followed at once by get_register(name)
\* returns v, for each of the names a, b, c, d, e, f, h, l.
C39_SetThenGet ==
  \A name \in MainNames, v \in PyValues :
     Z80_get_register(Z80_set_register(z80, name, v), name) = v

====
